---- MODULE Spec2Model ----
(***************************************************************************)
(* Property / photo consistency and caching subsystem.                     *)
(*                                                                         *)
(* The store (properties, photos), the process-wide TTL cache, the         *)
(* ownership-authorization cache and the calls of the property service     *)
(* (createProperty, getPropertyById, getProperties, updateProperty,        *)
(* deleteProperty, recordPropertyView), of the DELETE route and of the     *)
(* reconcile-photos handler.                                               *)
(*                                                                         *)
(* A call is a process.  Its code between two awaits runs without          *)
(* interruption, and the store executes each request at some moment        *)
(* between the await and its continuation.  A step of a call is therefore  *)
(* either one store operation together with the continuation that follows  *)
(* it, when that continuation touches only the call's locals and sends the *)
(* next request, or one continuation that reads or writes the cache; the   *)
(* cache lives in the server process, so such a continuation is a step of  *)
(* its own, after the store operation it waits for.                        *)
(*                                                                         *)
(* create_property_with_photos is modelled from the function body kept in  *)
(* the migration file; its inserts belong to one transaction, which other  *)
(* calls see only once it commits.                                         *)
(*                                                                         *)
(* A request to the store that fails either raises in the caller or        *)
(* resolves to an error value; the failing actions take the way as their   *)
(* parameter raised.                                                       *)
(*                                                                         *)
(* Strings that the code takes apart (startsWith, join, template keys) are *)
(* sequences of one-character strings.                                     *)
(*                                                                         *)
(* The users table, the admin handler that changes a user's role and the   *)
(* client's AuthProvider (its init and its auth-event callback) are part   *)
(* of the same state machine; a request and a callback are processes too.  *)
(***************************************************************************)
EXTENDS Integers, Sequences, FiniteSets, TLC

VARIABLES
    properties,   \* store: id -> property row
    photos,       \* store: sequence of photo rows (the index is the photo id)
    nextId,       \* store: the next property identity to generate
    cache,        \* TTL cache: key -> [value, expiresAt]
    ownerCache,   \* ownership-authorization cache: set of property ids held
    now,          \* the clock
    pc,           \* per call: where it stands
    loc,          \* per call: arguments and local variables
    calls,        \* number of calls started so far
    hist,         \* history: what the calls did (observation only)
    users,        \* store: user id -> user row
    provider      \* the state of the client's AuthProvider

vars == <<properties, photos, nextId, cache, ownerCache, now, pc, loc, calls,
          hist, users, provider>>

storeVars == <<properties, photos, nextId>>
cacheVars == <<cache, ownerCache>>

-----------------------------------------------------------------------------
(* Bounds of the model                                                     *)

MaxCreateCalls == 2     \* createProperty calls in SpecCreate
MaxTime == 5            \* the clock stops here
MaxReads == 4           \* getPropertyById calls in SpecTTL
MaxCalls == 2           \* calls in SpecConc
MaxRaceCalls == 3       \* calls in SpecRace
MaxKeyCalls == 2        \* getProperties calls in SpecKey
MaxReconCalls == 2      \* reconcile-photos passes in SpecRecon
MaxDeleteCalls == 3     \* calls in SpecDelete
MaxAssocCalls == 2      \* calls in SpecAssoc
MaxSeqCalls == 3        \* calls in SpecSeq
MaxListCalls == 3       \* calls in SpecListing
MaxUpdateCalls == 1     \* updateProperty calls in SpecUpdate
MaxAuthCalls == 3       \* calls in SpecAuth
MaxSweepCalls == 2      \* calls in SpecSweep
MaxPageCalls == 2       \* calls in SpecPaging
MaxAbsentCalls == 3     \* calls in SpecAbsent
MaxClaimCalls == 2      \* calls in SpecClaim
MaxPrefixCalls == 3     \* calls in SpecPrefix
MaxMissingCalls == 3    \* calls in SpecMissing
MaxRoleCalls == 3       \* requests in SpecRole
MaxEvents == 4          \* auth events in SpecProvider

-----------------------------------------------------------------------------
(* Strings                                                                 *)

Null == [t |-> "null"]            \* null / undefined where a record is expected
NullId == <<>>                    \* a null property reference
NoError == "none"                 \* the error field of a response without error
Undefined == [t |-> "undefined"]

StartsWith(s, pre) ==
    /\ Len(s) >= Len(pre)
    /\ SubSeq(s, 1, Len(pre)) = pre

RECURSIVE Join(_, _)
Join(parts, sep) ==
    IF Len(parts) = 0 THEN <<>>
    ELSE IF Len(parts) = 1 THEN parts[1]
    ELSE parts[1] \o sep \o Join(Tail(parts), sep)

Digits == <<"0", "1", "2", "3", "4", "5", "6", "7", "8", "9">>

RECURSIVE NumToStr(_)
NumToStr(n) ==
    IF n < 10 THEN <<Digits[n + 1]>>
    ELSE NumToStr(n \div 10) \o <<Digits[(n % 10) + 1]>>

S_http == <<"h", "t", "t", "p", ":", "/", "/">>
S_https == <<"h", "t", "t", "p", "s", ":", "/", "/">>
S_data == <<"d", "a", "t", "a", ":">>
S_ftp == <<"f", "t", "p", ":", "/", "/">>
S_property == <<"p", "r", "o", "p", "e", "r", "t", "y">>
S_properties == <<"p", "r", "o", "p", "e", "r", "t", "i", "e", "s">>
S_colon == <<":">>
S_active == <<"a", "c", "t", "i", "v", "e">>

\* JavaScript values of a request body: a string, a number, an array, undefined
JStr(s) == [t |-> "string", v |-> s]
JNum(n) == [t |-> "number", v |-> n]
JArr(a) == [t |-> "array", v |-> a]

IsArray(x) == x.t = "array"

U1 == S_https \o <<"1">>
U2 == S_http \o <<"2">>
UFtp == S_ftp \o <<"x">>
UData == S_data \o <<"i">>

-----------------------------------------------------------------------------
(* Image validation                                                        *)

MaxImages == 25

\* validateImageUrls: "ok" when it returns, otherwise the message it throws
\* (the source defines it and never calls it)
validateImageUrls(images) ==
    IF ~IsArray(images) THEN "ok"
    ELSE IF Len(images.v) > MaxImages THEN "Maximum 25 images per property"
    ELSE LET bad == {i \in 1..Len(images.v) :
                        \/ images.v[i].t # "string"
                        \/ StartsWith(images.v[i].v, S_data)
                        \/ (~StartsWith(images.v[i].v, S_http)
                              /\ ~StartsWith(images.v[i].v, S_https))}
             first == CHOOSE i \in bad : \A j \in bad : i <= j
         IN IF bad = {} THEN "ok"
            ELSE IF images.v[first].t # "string"
                 THEN "Images must be strings (ImageKit URLs)"
            ELSE IF StartsWith(images.v[first].v, S_data)
                 THEN "Base64 images are not allowed. Upload to ImageKit first."
            ELSE "Images must be valid URLs"

\* insertPropertySchema.safeParse(body): the schema of @shared/schema applies
\* the image-URL contract to body.images
insertPropertySchema_safeParse(body) ==
    LET imgs == body.images
        ok == \/ imgs = Undefined
              \/ /\ IsArray(imgs)
                 /\ Len(imgs.v) <= MaxImages
                 /\ \A i \in 1..Len(imgs.v) :
                        /\ imgs.v[i].t = "string"
                        /\ ~StartsWith(imgs.v[i].v, S_data)
                        /\ \/ StartsWith(imgs.v[i].v, S_http)
                           \/ StartsWith(imgs.v[i].v, S_https)
    IN IF ok THEN [success |-> TRUE, data |-> body]
       ELSE [success |-> FALSE, error |-> "validation"]

\* the image-URL contract, as the claims state it
IsHttpUrl(x) ==
    /\ x.t = "string"
    /\ ~StartsWith(x.v, S_data)
    /\ StartsWith(x.v, S_http) \/ StartsWith(x.v, S_https)

ImageListRejected(images) ==
    /\ IsArray(images)
    /\ \/ Len(images.v) > 25
       \/ \E i \in 1..Len(images.v) : ~IsHttpUrl(images.v[i])

ImageListAccepted(images) ==
    /\ IsArray(images)
    /\ Len(images.v) <= 25
    /\ \A i \in 1..Len(images.v) : IsHttpUrl(images.v[i])

-----------------------------------------------------------------------------
(* TTL cache                                                               *)

PROPERTY_DETAIL_TTL == 2

CacheLive(c, key, t) == key \in DOMAIN c /\ t <= c[key].expiresAt

\* cache.get(key): the value, or Null on a miss
CacheGet(c, key, t) == IF CacheLive(c, key, t) THEN c[key].value ELSE Null

\* the cache after cache.get(key): an expired entry is evicted
CacheAfterGet(c, key, t) ==
    IF key \in DOMAIN c /\ ~(t <= c[key].expiresAt)
    THEN [k \in DOMAIN c \ {key} |-> c[k]]
    ELSE c

\* cache.set(key, value, ttl)
CacheSet(c, key, value, ttl, t) ==
    [k \in DOMAIN c \cup {key} |->
        IF k = key THEN [value |-> value, expiresAt |-> t + ttl] ELSE c[k]]

\* cache.invalidate(target): every key equal to target or starting with it
CacheInvalidate(c, target) ==
    [k \in {x \in DOMAIN c : ~StartsWith(x, target)} |-> c[k]]

PropertyKey(id) == S_property \o S_colon \o id
ListingNamespace == S_properties \o S_colon

\* invalidateOwnershipCache("property", id)
invalidateOwnershipCache(oc, id) == oc \ {id}

-----------------------------------------------------------------------------
(* Store                                                                   *)

UserA == "user_a"
UserB == "user_b"
Users == {UserA, UserB}
NoUser == "no_user"

EmptyFn == [x \in {} |-> x]

\* the values of USER_ROLES that the sources name
USER_ROLES == {"renter", "agent", "admin"}

\* a row of the users table (the columns the calls read or write)
UserRow(id, role) == [id |-> id, role |-> role]

\* every owner has a row
InitialUsers == [u \in Users |-> UserRow(u, "renter")]

\* AuthProvider after construction: useState(null), useState(false),
\* useState(false), useRef(true); signedOut observes that a SIGNED_OUT event
\* has been handled and no event with a session has arrived since
InitialProvider ==
    [user |-> Null, authReady |-> FALSE, emailVerified |-> FALSE,
     initializing |-> TRUE, signedOut |-> FALSE]

Id1 == NumToStr(1)

\* a property row (the columns the calls read); images is not among the
\* columns the procedure inserts, so a new row has none; rev counts the
\* patches applied to the row, views the recorded views
PropertyRow(id, owner) ==
    [id |-> id, owner_id |-> owner, images |-> <<>>, title |-> "t0", rev |-> 0,
     views |-> 0]

\* a photo row; imagekit_file_id and thumbnail_url repeat url
PhotoRow(url, uploader, pid, source) ==
    [url |-> url, uploader_id |-> uploader, property_id |-> pid, source |-> source]

\* propertyRepository.findPropertyById(id): the row, or Null
findPropertyById(props, id) == IF id \in DOMAIN props THEN props[id] ELSE Null

Idle == [op |-> "none"]

-----------------------------------------------------------------------------
(* createProperty and the create_property_with_photos procedure            *)

CreateProcs == {"c1", "c2"}
CreateUser == [p \in CreateProcs |-> IF p = "c1" THEN UserA ELSE UserB]

ValidList(n) == JArr([i \in 1..n |-> JStr(IF i % 2 = 1 THEN U1 ELSE U2)])

CreateImages ==
    { Undefined, JArr(<<>>), JArr(<<JStr(U1)>>), JArr(<<JStr(U1), JStr(U2)>>),
      JArr(<<JStr(UFtp)>>), JArr(<<JStr(UData)>>), JArr(<<JNum(7)>>),
      JArr(<<JStr(U1), JStr(UFtp)>>), JArr(<<JStr(U2), JStr(UData), JNum(7)>>),
      ValidList(MaxImages), ValidList(MaxImages + 1) }

\* the second caller sends short lists only
CreateInputs ==
    [p \in CreateProcs |->
        IF p = "c1" THEN CreateImages
        ELSE {JArr(<<JStr(U1), JStr(U2)>>), JArr(<<JStr(UFtp)>>)}]

\* a transaction of the procedure: the rows written and not yet committed
NoTx == [open |-> FALSE]
NoResp == [data |-> Null, error |-> NoError, raised |-> FALSE]
NoResult == [kind |-> "none"]

\* lines 134-163: parse the body, build the parameters, call the procedure
CreateCall_NoValidation(p, body, userId) ==
    /\ pc[p] = "idle"
    /\ pc' = [pc EXCEPT ![p] = "cp_rpc"]
    /\ loc' = [loc EXCEPT ![p] =
                 [op |-> "create", body |-> body, userId |-> userId,
                  storeAccess |-> TRUE,
                  image_urls |-> IF IsArray(body.images)
                                 THEN [i \in 1..Len(body.images.v) |-> body.images.v[i].v]
                                 ELSE <<>>,
                  tx |-> NoTx, resp |-> NoResp, result |-> NoResult]]
    /\ calls' = calls + 1
    /\ UNCHANGED <<storeVars, cacheVars, now, hist, users, provider>>

CreateCall(p, body, userId) ==
    /\ pc[p] = "idle"
    /\ LET parsed == insertPropertySchema_safeParse(body)
       IN IF ~parsed.success
          THEN /\ pc' = [pc EXCEPT ![p] = "done"]
               /\ loc' = [loc EXCEPT ![p] =
                            [op |-> "create", body |-> body, userId |-> userId,
                             storeAccess |-> FALSE, image_urls |-> <<>>,
                             tx |-> NoTx, resp |-> NoResp,
                             result |-> [kind |-> "error", error |-> parsed.error]]]
          ELSE /\ pc' = [pc EXCEPT ![p] = "cp_rpc"]
               /\ loc' = [loc EXCEPT ![p] =
                            [op |-> "create", body |-> body, userId |-> userId,
                             storeAccess |-> TRUE,
                             image_urls |-> IF IsArray(parsed.data.images)
                                            THEN [i \in 1..Len(parsed.data.images.v) |->
                                                     parsed.data.images.v[i].v]
                                            ELSE <<>>,
                             tx |-> NoTx, resp |-> NoResp, result |-> NoResult]]
    /\ calls' = calls + 1
    /\ UNCHANGED <<storeVars, cacheVars, now, hist, users, provider>>

\* the procedure, INSERT INTO properties ... RETURNING * INTO new_prop:
\* the row is written in the transaction; images is not among the columns
ProcInsertProperty_AutoCommit(p) ==
    /\ pc[p] = "cp_rpc"
    /\ ~loc[p].tx.open
    /\ LET id == NumToStr(nextId)
           row == PropertyRow(id, loc[p].userId)
       IN /\ loc' = [loc EXCEPT ![p].tx =
                        [open |-> TRUE, prop |-> row, photos |-> <<>>]]
          /\ properties' = [k \in DOMAIN properties \cup {id} |->
                               IF k = id THEN row ELSE properties[k]]
          /\ hist' = [hist EXCEPT !.created =
                        [k \in DOMAIN hist.created \cup {id} |->
                            IF k = id THEN [images |-> loc[p].image_urls,
                                            state |-> "open", partial |-> FALSE]
                            ELSE hist.created[k]]]
    /\ nextId' = nextId + 1
    /\ UNCHANGED <<photos, cacheVars, now, pc, calls, users, provider>>

ProcInsertProperty(p) ==
    /\ pc[p] = "cp_rpc"
    /\ ~loc[p].tx.open
    /\ LET id == NumToStr(nextId)
           row == PropertyRow(id, loc[p].userId)
       IN /\ loc' = [loc EXCEPT ![p].tx =
                        [open |-> TRUE, prop |-> row, photos |-> <<>>]]
          /\ hist' = [hist EXCEPT !.created =
                        [k \in DOMAIN hist.created \cup {id} |->
                            IF k = id THEN [images |-> loc[p].image_urls,
                                            state |-> "open", partial |-> FALSE]
                            ELSE hist.created[k]]]
    /\ nextId' = nextId + 1
    /\ UNCHANGED <<properties, photos, cacheVars, now, pc, calls, users, provider>>

\* FOREACH img IN ARRAY image_urls LOOP INSERT INTO photos ...
ProcInsertPhoto_WrongTag(p) ==
    /\ pc[p] = "cp_rpc"
    /\ loc[p].tx.open
    /\ Len(loc[p].tx.photos) < Len(loc[p].image_urls)
    /\ LET img == loc[p].image_urls[Len(loc[p].tx.photos) + 1]
       IN loc' = [loc EXCEPT ![p].tx.photos =
                     Append(@, PhotoRow(img, loc[p].userId, loc[p].tx.prop.id,
                                        "property_update"))]
    /\ UNCHANGED <<storeVars, cacheVars, now, pc, calls, hist, users, provider>>

ProcInsertPhoto(p) ==
    /\ pc[p] = "cp_rpc"
    /\ loc[p].tx.open
    /\ Len(loc[p].tx.photos) < Len(loc[p].image_urls)
    /\ LET img == loc[p].image_urls[Len(loc[p].tx.photos) + 1]
       IN loc' = [loc EXCEPT ![p].tx.photos =
                     Append(@, PhotoRow(img, loc[p].userId, loc[p].tx.prop.id,
                                        "property_creation"))]
    /\ UNCHANGED <<storeVars, cacheVars, now, pc, calls, hist, users, provider>>

\* RETURN new_prop: the transaction commits, the call gets {data, error: null}
ProcReturn(p) ==
    /\ pc[p] = "cp_rpc"
    /\ loc[p].tx.open
    /\ Len(loc[p].tx.photos) = Len(loc[p].image_urls)
    /\ LET row == loc[p].tx.prop
       IN /\ properties' = [k \in DOMAIN properties \cup {row.id} |->
                               IF k = row.id THEN row ELSE properties[k]]
          /\ photos' = photos \o loc[p].tx.photos
          /\ hist' = [hist EXCEPT !.created[row.id].state = "committed"]
          /\ loc' = [loc EXCEPT ![p].tx = NoTx,
                                ![p].resp = [data |-> row, error |-> NoError,
                                             raised |-> FALSE]]
    /\ pc' = [pc EXCEPT ![p] = "cp_resp"]
    /\ UNCHANGED <<nextId, cacheVars, now, calls, users, provider>>

\* the procedure fails at any point: the transaction is rolled back and the
\* call gets {error}, or the client raises
ProcFail(p, raised) ==
    /\ pc[p] = "cp_rpc"
    /\ hist' = IF loc[p].tx.open
               THEN [hist EXCEPT !.created[loc[p].tx.prop.id].state = "failed",
                                 !.created[loc[p].tx.prop.id].partial =
                                     /\ Len(loc[p].tx.photos) > 0
                                     /\ Len(loc[p].tx.photos) < Len(loc[p].image_urls)]
               ELSE hist
    /\ loc' = [loc EXCEPT ![p].tx = NoTx,
                          ![p].resp = [data |-> Null, error |-> "store",
                                       raised |-> raised]]
    /\ pc' = [pc EXCEPT ![p] = "cp_resp"]
    /\ UNCHANGED <<storeVars, cacheVars, now, calls, users, provider>>

\* a raise of the client reaches the caller (not what the source does)
CreateReturn_Rethrow(p) ==
    /\ pc[p] = "cp_resp"
    /\ IF loc[p].resp.raised
       THEN /\ loc' = [loc EXCEPT ![p].result =
                         [kind |-> "raised", error |-> loc[p].resp.error]]
            /\ UNCHANGED cache
       ELSE IF loc[p].resp.error # NoError
       THEN /\ loc' = [loc EXCEPT ![p].result =
                         [kind |-> "error", error |-> loc[p].resp.error]]
            /\ UNCHANGED cache
       ELSE /\ cache' = CacheInvalidate(cache, ListingNamespace)
            /\ loc' = [loc EXCEPT ![p].result =
                         [kind |-> "data", data |-> loc[p].resp.data]]
    /\ pc' = [pc EXCEPT ![p] = "done"]
    /\ UNCHANGED <<storeVars, ownerCache, now, calls, hist, users, provider>>

\* lines 163-175: the response of the procedure; an error value (line 165)
\* and a raise (line 172) both become a result that carries the message
CreateReturn(p) ==
    /\ pc[p] = "cp_resp"
    /\ IF loc[p].resp.raised \/ loc[p].resp.error # NoError
       THEN /\ loc' = [loc EXCEPT ![p].result =
                         [kind |-> "error", error |-> loc[p].resp.error]]
            /\ UNCHANGED cache
       ELSE /\ cache' = CacheInvalidate(cache, ListingNamespace)
            /\ loc' = [loc EXCEPT ![p].result =
                         [kind |-> "data", data |-> loc[p].resp.data]]
    /\ pc' = [pc EXCEPT ![p] = "done"]
    /\ UNCHANGED <<storeVars, ownerCache, now, calls, hist, users, provider>>

\* the caller has the result; the process is free for the next call
Finish(p) ==
    /\ pc[p] = "done"
    /\ pc' = [pc EXCEPT ![p] = "idle"]
    /\ loc' = [loc EXCEPT ![p] = Idle]
    /\ UNCHANGED <<storeVars, cacheVars, now, calls, hist, users, provider>>

InitHist ==
    [created |-> EmptyFn,     \* identities the procedure generated
     lastMiss |-> -1,         \* when getPropertyById last returned a store read
     hits |-> 0,              \* getPropertyById calls served from the cache
     returnedRev |-> 0]       \* newest write whose updateProperty has returned

InitCreate ==
    /\ properties = EmptyFn
    /\ photos = <<>>
    /\ nextId = 1
    /\ cache = EmptyFn
    /\ ownerCache = {}
    /\ now = 0
    /\ pc = [p \in CreateProcs |-> "idle"]
    /\ loc = [p \in CreateProcs |-> Idle]
    /\ calls = 0
    /\ hist = InitHist
    /\ users = InitialUsers
    /\ provider = InitialProvider

NextCreate ==
    \E p \in CreateProcs :
        \/ /\ calls < MaxCreateCalls
           /\ \E images \in CreateInputs[p] :
                 CreateCall(p, [images |-> images], CreateUser[p])
        \/ ProcInsertProperty(p)
        \/ ProcInsertPhoto(p)
        \/ ProcReturn(p)
        \/ \E raised \in BOOLEAN : ProcFail(p, raised)
        \/ CreateReturn(p)
        \/ Finish(p)

SpecCreate == InitCreate /\ [][NextCreate]_vars

-----------------------------------------------------------------------------
(* getPropertyById                                                         *)

GetLoc(id, fromCache, row, result) ==
    [op |-> "get", id |-> id, start |-> now, missBefore |-> hist.lastMiss,
     needRev |-> hist.returnedRev, fromCache |-> fromCache, reads |-> 0, property |-> row, result |-> result]

\* lines 118-123: look the key up in the cache; on a miss ask the store
GetCall(p, id) ==
    /\ pc[p] = "idle"
    /\ LET cacheKey == PropertyKey(id)
           cached == CacheGet(cache, cacheKey, now)
       IN /\ cache' = CacheAfterGet(cache, cacheKey, now)
          /\ IF cached # Null
             THEN /\ pc' = [pc EXCEPT ![p] = "done"]
                  /\ loc' = [loc EXCEPT ![p] =
                               GetLoc(id, TRUE, cached,
                                      [kind |-> "data", data |-> cached])]
                  /\ hist' = [hist EXCEPT !.hits = @ + 1]
             ELSE /\ pc' = [pc EXCEPT ![p] = "gp_find"]
                  /\ loc' = [loc EXCEPT ![p] = GetLoc(id, FALSE, Null, NoResult)]
                  /\ UNCHANGED hist
    /\ calls' = calls + 1
    /\ UNCHANGED <<storeVars, ownerCache, now, users, provider>>

\* line 123: the store answers findPropertyById
GetLoad(p) ==
    /\ pc[p] = "gp_find"
    /\ pc' = [pc EXCEPT ![p] = "gp_resp"]
    /\ loc' = [loc EXCEPT ![p].property = findPropertyById(properties, loc[p].id),
                          ![p].reads = @ + 1]
    /\ UNCHANGED <<storeVars, cacheVars, now, calls, hist, users, provider>>

\* lines 124-127: absent is returned as null; a record is cached and returned
GetReturn_NoSet(p) ==
    /\ pc[p] = "gp_resp"
    /\ IF loc[p].property = Null
       THEN /\ loc' = [loc EXCEPT ![p].result = [kind |-> "absent"]]
            /\ UNCHANGED hist
       ELSE /\ loc' = [loc EXCEPT ![p].result =
                         [kind |-> "data", data |-> loc[p].property]]
            /\ hist' = [hist EXCEPT !.lastMiss = now]
    /\ pc' = [pc EXCEPT ![p] = "done"]
    /\ UNCHANGED <<storeVars, cacheVars, now, calls, users, provider>>

\* absence is cached as a record of its own (not what the source does)
GetReturn_CacheAbsent(p) ==
    /\ pc[p] = "gp_resp"
    /\ IF loc[p].property = Null
       THEN /\ cache' = CacheSet(cache, PropertyKey(loc[p].id),
                                 [id |-> NullId], PROPERTY_DETAIL_TTL, now)
            /\ loc' = [loc EXCEPT ![p].result = [kind |-> "absent"]]
            /\ UNCHANGED hist
       ELSE /\ cache' = CacheSet(cache, PropertyKey(loc[p].id), loc[p].property,
                                 PROPERTY_DETAIL_TTL, now)
            /\ loc' = [loc EXCEPT ![p].result =
                         [kind |-> "data", data |-> loc[p].property]]
            /\ hist' = [hist EXCEPT !.lastMiss = now]
    /\ pc' = [pc EXCEPT ![p] = "done"]
    /\ UNCHANGED <<storeVars, ownerCache, now, calls, users, provider>>

GetReturn(p) ==
    /\ pc[p] = "gp_resp"
    /\ IF loc[p].property = Null
       THEN /\ loc' = [loc EXCEPT ![p].result = [kind |-> "absent"]]
            /\ UNCHANGED <<cache, hist>>
       ELSE /\ cache' = CacheSet(cache, PropertyKey(loc[p].id), loc[p].property,
                                 PROPERTY_DETAIL_TTL, now)
            /\ loc' = [loc EXCEPT ![p].result =
                         [kind |-> "data", data |-> loc[p].property]]
            /\ hist' = [hist EXCEPT !.lastMiss = now]
    /\ pc' = [pc EXCEPT ![p] = "done"]
    /\ UNCHANGED <<storeVars, ownerCache, now, calls, users, provider>>

\* time passes
Tick ==
    /\ now < MaxTime
    /\ now' = now + 1
    /\ UNCHANGED <<storeVars, cacheVars, pc, loc, calls, hist, users, provider>>

TTLProcs == {"r1"}

\* one reader calls getPropertyById again and again on a property that is in
\* the store and is not written
InitTTL ==
    /\ properties = [k \in {Id1} |-> PropertyRow(Id1, UserA)]
    /\ photos = <<>>
    /\ nextId = 2
    /\ cache = EmptyFn
    /\ ownerCache = {}
    /\ now = 0
    /\ pc = [p \in TTLProcs |-> "idle"]
    /\ loc = [p \in TTLProcs |-> Idle]
    /\ calls = 0
    /\ hist = InitHist
    /\ users = InitialUsers
    /\ provider = InitialProvider

NextTTL ==
    \/ \E p \in TTLProcs :
          \/ calls < MaxReads /\ GetCall(p, Id1)
          \/ GetLoad(p)
          \/ GetReturn(p)
          \/ Finish(p)
    \/ Tick

SpecTTL == InitTTL /\ [][NextTTL]_vars

GetDone(p) == pc[p] = "done" /\ loc[p].op = "get"

\* C4: with the property in the store and no write, a getPropertyById call
\* is served from the cache, without a store read, exactly when an earlier
\* call has read the record from the store and the call starts no later than
\* the detail TTL after that call returned; otherwise (the first call, or a
\* call after the expiry instant) it reads the store once.
C4_CacheWindow ==
    \A p \in DOMAIN pc :
        GetDone(p) =>
            /\ loc[p].result.kind = "data"
            /\ loc[p].fromCache <=>
                  /\ loc[p].missBefore >= 0
                  /\ loc[p].start <= loc[p].missBefore + PROPERTY_DETAIL_TTL
            /\ loc[p].reads = IF loc[p].fromCache THEN 0 ELSE 1

\* after a call served from the cache, a call made after the expiry instant
\* has read the store again
C4_Witness ==
    \E p \in DOMAIN pc :
        /\ GetDone(p)
        /\ hist.hits >= 1
        /\ ~loc[p].fromCache
        /\ loc[p].missBefore >= 0
        /\ loc[p].start > loc[p].missBefore + PROPERTY_DETAIL_TTL
        /\ loc[p].reads = 1

-----------------------------------------------------------------------------
(* getProperties                                                           *)

PROPERTIES_LIST_TTL == 1

DefaultPage == 1
DefaultLimit == 20
MaxLimit == 100

NaN == [nan |-> TRUE, n |-> 0]
Num(n) == [nan |-> FALSE, n |-> n]

IsDigit(c) == \E d \in 1..10 : Digits[d] = c
DigitVal(c) == (CHOOSE d \in 1..10 : Digits[d] = c) - 1

RECURSIVE DigitsVal(_)
DigitsVal(s) ==
    IF Len(s) = 0 THEN 0
    ELSE 10 * DigitsVal(SubSeq(s, 1, Len(s) - 1)) + DigitVal(s[Len(s)])

\* Number(x) of a query parameter: undefined and text that is no decimal
\* integer give NaN, the empty string gives 0
Number(x) ==
    IF x = Undefined THEN NaN
    ELSE IF Len(x.v) = 0 THEN Num(0)
    ELSE IF \A i \in 1..Len(x.v) : IsDigit(x.v[i]) THEN Num(DigitsVal(x.v))
    ELSE IF /\ Len(x.v) > 1
            /\ x.v[1] = "-"
            /\ \A i \in 2..Len(x.v) : IsDigit(x.v[i])
         THEN Num(0 - DigitsVal(Tail(x.v)))
    ELSE NaN

\* n || d
OrElse(num, d) == IF num.nan \/ num.n = 0 THEN d ELSE num.n

Max2(a, b) == IF a >= b THEN a ELSE b
Min2(a, b) == IF a <= b THEN a ELSE b

\* x ?? d
Coalesce(x, d) == IF x = Undefined THEN d ELSE x.v

\* lines 70-71
PageOf(params) == Max2(1, OrElse(Number(params.page), DefaultPage))
LimitOf(params) == Min2(MaxLimit, Max2(1, OrElse(Number(params.limit), DefaultLimit)))

\* the text of a number of the key; a negative number does not occur
NumText(n) == NumToStr(n)

\* lines 73-83
ListingKey(params) ==
    Join(<<S_properties,
           Coalesce(params.propertyType, <<>>),
           Coalesce(params.city, <<>>),
           Coalesce(params.minPrice, <<>>),
           Coalesce(params.maxPrice, <<>>),
           Coalesce(params.status, S_active),
           Coalesce(params.ownerId, <<>>),
           NumText(PageOf(params)),
           NumText(LimitOf(params))>>, S_colon)

\* the filter tuple of a call: every dimension with its default, page, limit
FilterTuple(params) ==
    <<Coalesce(params.propertyType, <<>>),
      Coalesce(params.city, <<>>),
      Coalesce(params.minPrice, <<>>),
      Coalesce(params.maxPrice, <<>>),
      Coalesce(params.status, S_active),
      Coalesce(params.ownerId, <<>>),
      PageOf(params),
      LimitOf(params)>>

UserText(u) == IF u = UserA THEN <<"u", "a">> ELSE <<"u", "b">>

RECURSIVE IdsFrom(_, _)
IdsFrom(n, last) ==
    IF n > last THEN <<>>
    ELSE (IF NumToStr(n) \in DOMAIN properties THEN <<NumToStr(n)>> ELSE <<>>)
            \o IdsFrom(n + 1, last)

\* propertyRepository.findAllProperties: the rows of the page and the total;
\* of the filter only the owner is a column of the model's rows
findAllProperties(params, page, limit) ==
    LET Owned(id) == \/ params.ownerId = Undefined
                     \/ UserText(properties[id].owner_id) = params.ownerId.v
        all == SelectSeq(IdsFrom(1, nextId - 1), Owned)
        from == (page - 1) * limit + 1
        to == Min2(page * limit, Len(all))
    IN [data |-> IF from > to THEN <<>> ELSE SubSeq(all, from, to),
        count |-> Len(all)]

CeilDiv(a, b) == (a + b - 1) \div b

\* the properties whose createProperty call has returned them
ReturnedByCreate ==
    {loc[q].result.data.id :
        q \in {r \in DOMAIN pc : /\ pc[r] = "done"
                                 /\ loc[r].op = "create"
                                 /\ loc[r].result.kind = "data"}}

\* mustSee observes which created properties had been returned when the
\* call began
ListLoc(params, fromCache, result) ==
    [op |-> "list", params |-> params, page |-> PageOf(params),
     limit |-> LimitOf(params), fromCache |-> fromCache,
     found |-> [data |-> <<>>, count |-> 0], mustSee |-> ReturnedByCreate,
     result |-> result]

\* lines 67-86: clamp, build the key, look it up; on a miss ask the store
ListCall(p, params) ==
    /\ pc[p] = "idle"
    /\ LET cacheKey == ListingKey(params)
           cached == CacheGet(cache, cacheKey, now)
       IN /\ cache' = CacheAfterGet(cache, cacheKey, now)
          /\ IF cached # Null
             THEN /\ pc' = [pc EXCEPT ![p] = "done"]
                  /\ loc' = [loc EXCEPT ![p] = ListLoc(params, TRUE, cached)]
             ELSE /\ pc' = [pc EXCEPT ![p] = "ls_find"]
                  /\ loc' = [loc EXCEPT ![p] = ListLoc(params, FALSE, NoResult)]
    /\ calls' = calls + 1
    /\ UNCHANGED <<storeVars, ownerCache, now, hist, users, provider>>

\* lines 88-98: the store answers findAllProperties
ListLoad(p) ==
    /\ pc[p] = "ls_find"
    /\ pc' = [pc EXCEPT ![p] = "ls_resp"]
    /\ loc' = [loc EXCEPT ![p].found =
                 findAllProperties(loc[p].params, loc[p].page, loc[p].limit)]
    /\ UNCHANGED <<storeVars, cacheVars, now, calls, hist, users, provider>>

\* lines 100-115: the pagination, the cache entry, the result; forTuple
\* records the filter tuple the page was computed for
ListReturn(p) ==
    /\ pc[p] = "ls_resp"
    /\ LET l == loc[p]
           totalPages == CeilDiv(l.found.count, l.limit)
           result == [kind |-> "list",
                      properties |-> l.found.data,
                      pagination |-> [page |-> l.page, limit |-> l.limit,
                                      total |-> l.found.count,
                                      totalPages |-> totalPages,
                                      hasNextPage |-> l.page < totalPages,
                                      hasPrevPage |-> l.page > 1],
                      forTuple |-> FilterTuple(l.params)]
       IN /\ cache' = CacheSet(cache, ListingKey(l.params), result,
                               PROPERTIES_LIST_TTL, now)
          /\ loc' = [loc EXCEPT ![p].result = result]
    /\ pc' = [pc EXCEPT ![p] = "done"]
    /\ UNCHANGED <<storeVars, ownerCache, now, calls, hist, users, provider>>

KeyProcs == {"k1"}

KeyTexts == {Undefined, JStr(<<"a">>), JStr(<<"a", ":">>), JStr(<<":">>)}

ListParams ==
    [propertyType : KeyTexts, city : KeyTexts, minPrice : {Undefined},
     maxPrice : {Undefined}, status : {Undefined, JStr(S_active)},
     ownerId : {Undefined, JStr(UserText(UserA))},
     page : {Undefined, JStr(<<"2">>)}, limit : {Undefined, JStr(<<"0">>)}]

InitKey ==
    /\ properties = [k \in {Id1} |-> PropertyRow(Id1, UserA)]
    /\ photos = <<>>
    /\ nextId = 2
    /\ cache = EmptyFn
    /\ ownerCache = {}
    /\ now = 0
    /\ pc = [p \in KeyProcs |-> "idle"]
    /\ loc = [p \in KeyProcs |-> Idle]
    /\ calls = 0
    /\ hist = InitHist
    /\ users = InitialUsers
    /\ provider = InitialProvider

NextKey ==
    \E p \in KeyProcs :
        \/ calls < MaxKeyCalls /\ \E params \in ListParams : ListCall(p, params)
        \/ ListLoad(p)
        \/ ListReturn(p)
        \/ Finish(p)

SpecKey == InitKey /\ [][NextKey]_vars

\* C9: a getProperties call served from the cache gets a page that was
\* computed for its own filter tuple.
C9_KeyIsolation ==
    \A p \in DOMAIN pc :
        (pc[p] = "done" /\ loc[p].op = "list" /\ loc[p].fromCache) =>
            loc[p].result.forTuple = FilterTuple(loc[p].params)

-----------------------------------------------------------------------------
(* updateProperty                                                          *)

Absent == "absent"                \* a field the patch does not carry

Patch(owner, images, title) ==
    [owner_id |-> owner, images |-> images, title |-> title]

\* propertyRepository.updateProperty(id, updateData): the row after the write
ApplyPatch(row, updateData) ==
    [row EXCEPT
        !.owner_id = IF updateData.owner_id # Absent THEN updateData.owner_id ELSE @,
        !.images = IF IsArray(updateData.images) THEN updateData.images.v ELSE @,
        !.title = IF updateData.title # Absent THEN updateData.title ELSE @,
        !.rev = @ + 1]

\* faulted observes whether a request of the photo association failed
UpdateLoc(id, updateData, userId, row) ==
    [op |-> "update", id |-> id, updateData |-> updateData, userId |-> userId,
     property |-> row, updated |-> Null, i |-> 0, existing |-> 0,
     toInsert |-> <<>>, faulted |-> FALSE, result |-> NoResult]

\* the row queued for a URL that has no orphan photo (lines 223-231)
QueuedRow(l) ==
    PhotoRow(l.updateData.images.v[l.i].v, l.userId, l.id, "property_update")

\* the end of one turn of the loop of lines 210-244, and what follows it
NextUrl(l) ==
    IF l.i < Len(l.updateData.images.v) THEN "up_assoc"
    ELSE IF Len(l.toInsert) > 0 THEN "up_insert"
    ELSE "up_inval"

\* lines 183-198: load the record from the store, check it, send the patch
UpdateCall_NoOwnerCheck(p, id, updateData, userId) ==
    /\ pc[p] = "idle"
    /\ LET property == findPropertyById(properties, id)
       IN IF property = Null
          THEN /\ pc' = [pc EXCEPT ![p] = "done"]
               /\ loc' = [loc EXCEPT ![p] =
                            [UpdateLoc(id, updateData, userId, property) EXCEPT
                               !.result = [kind |-> "error", error |-> "not_found"]]]
          ELSE /\ pc' = [pc EXCEPT ![p] = "up_write"]
               /\ loc' = [loc EXCEPT ![p] = UpdateLoc(id, updateData, userId, property)]
    /\ calls' = calls + 1
    /\ UNCHANGED <<storeVars, cacheVars, now, hist, users, provider>>

\* the owner is taken from the cached record when there is one (not what
\* the source does)
UpdateCall_CachedOwner(p, id, updateData, userId) ==
    /\ pc[p] = "idle"
    /\ LET cached == CacheGet(cache, PropertyKey(id), now)
           property == IF cached # Null THEN cached
                       ELSE findPropertyById(properties, id)
       IN IF property = Null
          THEN /\ pc' = [pc EXCEPT ![p] = "done"]
               /\ loc' = [loc EXCEPT ![p] =
                            [UpdateLoc(id, updateData, userId, property) EXCEPT
                               !.result = [kind |-> "error", error |-> "not_found"]]]
          ELSE IF userId # NoUser /\ property.owner_id # userId
          THEN /\ pc' = [pc EXCEPT ![p] = "done"]
               /\ loc' = [loc EXCEPT ![p] =
                            [UpdateLoc(id, updateData, userId, property) EXCEPT
                               !.result = [kind |-> "error", error |-> "unauthorized"]]]
          ELSE /\ pc' = [pc EXCEPT ![p] = "up_write"]
               /\ loc' = [loc EXCEPT ![p] = UpdateLoc(id, updateData, userId, property)]
    /\ calls' = calls + 1
    /\ UNCHANGED <<storeVars, cacheVars, now, hist, users, provider>>

UpdateCall(p, id, updateData, userId) ==
    /\ pc[p] = "idle"
    /\ LET property == findPropertyById(properties, id)
       IN IF property = Null
          THEN /\ pc' = [pc EXCEPT ![p] = "done"]
               /\ loc' = [loc EXCEPT ![p] =
                            [UpdateLoc(id, updateData, userId, property) EXCEPT
                               !.result = [kind |-> "error", error |-> "not_found"]]]
          ELSE IF userId # NoUser /\ property.owner_id # userId
          THEN /\ pc' = [pc EXCEPT ![p] = "done"]
               /\ loc' = [loc EXCEPT ![p] =
                            [UpdateLoc(id, updateData, userId, property) EXCEPT
                               !.result = [kind |-> "error", error |-> "unauthorized"]]]
          ELSE /\ pc' = [pc EXCEPT ![p] = "up_write"]
               /\ loc' = [loc EXCEPT ![p] = UpdateLoc(id, updateData, userId, property)]
    /\ calls' = calls + 1
    /\ UNCHANGED <<storeVars, cacheVars, now, hist, users, provider>>

\* line 198: the store applies the patch; lines 204-209: the loop begins
UpdateWrite(p) ==
    /\ pc[p] = "up_write"
    /\ loc[p].id \in DOMAIN properties
    /\ LET l == loc[p]
           updated == ApplyPatch(properties[l.id], l.updateData)
           images == l.updateData.images
       IN /\ properties' = [properties EXCEPT ![l.id] = updated]
          /\ loc' = [loc EXCEPT ![p].updated = updated, ![p].i = 1]
          /\ pc' = [pc EXCEPT ![p] =
                       IF IsArray(images) /\ Len(images.v) > 0
                       THEN "up_assoc" ELSE "up_inval"]
    /\ UNCHANGED <<photos, nextId, cacheVars, now, calls, hist, users, provider>>

\* line 198 when the row has been deleted meanwhile: the repository has no
\* row to return and updateProperty ends with its fault
UpdateWriteGone(p) ==
    /\ pc[p] = "up_write"
    /\ loc[p].id \notin DOMAIN properties
    /\ loc' = [loc EXCEPT ![p].result = [kind |-> "error", error |-> "not_found"]]
    /\ pc' = [pc EXCEPT ![p] = "done"]
    /\ UNCHANGED <<storeVars, cacheVars, now, calls, hist, users, provider>>

\* lines 212-232: look for an orphan photo with the URL; re-point it or queue
\* a new row
UpdateLookup(p) ==
    /\ pc[p] = "up_assoc"
    /\ LET l == loc[p]
           url == l.updateData.images.v[l.i].v
           orphans == {k \in 1..Len(photos) :
                          photos[k].url = url /\ photos[k].property_id = NullId}
       IN IF orphans = {}
          THEN /\ loc' = [loc EXCEPT ![p].toInsert = Append(@, QueuedRow(l)),
                                     ![p].i = @ + 1]
               /\ pc' = [pc EXCEPT ![p] =
                            NextUrl([l EXCEPT !.toInsert = Append(@, QueuedRow(l))])]
          ELSE \E k \in orphans :
                 /\ loc' = [loc EXCEPT ![p].existing = k]
                 /\ pc' = [pc EXCEPT ![p] = "up_repoint"]
    /\ UNCHANGED <<storeVars, cacheVars, now, calls, hist, users, provider>>

\* line 221: the store sets the photo's property reference
UpdateRepoint(p) ==
    /\ pc[p] = "up_repoint"
    /\ LET l == loc[p]
       IN /\ photos' = [photos EXCEPT ![l.existing].property_id = l.id]
          /\ loc' = [loc EXCEPT ![p].i = @ + 1]
          /\ pc' = [pc EXCEPT ![p] = NextUrl(l)]
    /\ UNCHANGED <<properties, nextId, cacheVars, now, calls, hist, users, provider>>

\* lines 246-251: the store inserts the queued rows
UpdateInsert(p) ==
    /\ pc[p] = "up_insert"
    /\ photos' = photos \o loc[p].toInsert
    /\ pc' = [pc EXCEPT ![p] = "up_inval"]
    /\ UNCHANGED <<properties, nextId, cacheVars, now, loc, calls, hist, users, provider>>

\* lines 212-243: the lookup fails.  A raise is caught at line 233, an error
\* value leaves existing null (line 222); either way a new row is queued
UpdateLookupFail(p, raised) ==
    /\ pc[p] = "up_assoc"
    /\ LET l == loc[p]
           queued == Append(l.toInsert, QueuedRow(l))
       IN /\ loc' = [loc EXCEPT ![p].toInsert = queued,
                                ![p].i = @ + 1,
                                ![p].faulted = TRUE]
          /\ pc' = [pc EXCEPT ![p] = NextUrl([l EXCEPT !.toInsert = queued])]
    /\ UNCHANGED <<storeVars, cacheVars, now, calls, hist, users, provider>>

\* lines 221, 233-243: the re-pointing fails and the photo stays orphan.  A
\* raise is caught at line 233, which queues a new row; an error value is not
\* looked at
UpdateRepointFail(p, raised) ==
    /\ pc[p] = "up_repoint"
    /\ LET l == loc[p]
           queued == IF raised THEN Append(l.toInsert, QueuedRow(l)) ELSE l.toInsert
       IN /\ loc' = [loc EXCEPT ![p].toInsert = queued,
                                ![p].i = @ + 1,
                                ![p].faulted = TRUE]
          /\ pc' = [pc EXCEPT ![p] = NextUrl([l EXCEPT !.toInsert = queued])]
    /\ UNCHANGED <<storeVars, cacheVars, now, calls, hist, users, provider>>

\* a raise of the insert ends the call with the fault (not what the source
\* does)
UpdateInsertFail_Fatal(p, raised) ==
    /\ pc[p] = "up_insert"
    /\ IF raised
       THEN /\ loc' = [loc EXCEPT ![p].faulted = TRUE,
                                  ![p].result = [kind |-> "error", error |-> "store"]]
            /\ pc' = [pc EXCEPT ![p] = "done"]
       ELSE /\ loc' = [loc EXCEPT ![p].faulted = TRUE]
            /\ pc' = [pc EXCEPT ![p] = "up_inval"]
    /\ UNCHANGED <<storeVars, cacheVars, now, calls, hist, users, provider>>

\* lines 246-255: the insert of the queued rows fails and no row is added.
\* An error value is logged at line 249, a raise at line 254
UpdateInsertFail(p, raised) ==
    /\ pc[p] = "up_insert"
    /\ loc' = [loc EXCEPT ![p].faulted = TRUE]
    /\ pc' = [pc EXCEPT ![p] = "up_inval"]
    /\ UNCHANGED <<storeVars, cacheVars, now, calls, hist, users, provider>>

\* lines 257-261: the three invalidations, then the updated record
UpdateReturn(p) ==
    /\ pc[p] = "up_inval"
    /\ cache' = CacheInvalidate(CacheInvalidate(cache, PropertyKey(loc[p].id)),
                                ListingNamespace)
    /\ ownerCache' = invalidateOwnershipCache(ownerCache, loc[p].id)
    /\ loc' = [loc EXCEPT ![p].result = [kind |-> "data", data |-> loc[p].updated]]
    /\ pc' = [pc EXCEPT ![p] = "done"]
    /\ hist' = [hist EXCEPT !.returnedRev =
                  IF loc[p].updated.rev > @ THEN loc[p].updated.rev ELSE @]
    /\ UNCHANGED <<storeVars, now, calls, users, provider>>

-----------------------------------------------------------------------------
(* deleteProperty and the DELETE /:id route                                *)

\* requester is the user the request is made for; userId is what
\* deleteProperty is given
DeleteLoc(id, userId, requester, row) ==
    [op |-> "delete", id |-> id, userId |-> userId, requester |-> requester,
     property |-> row, result |-> NoResult]

\* propertyRepository.deleteProperty(id): the table without the row
RemoveRow(props, id) == [k \in DOMAIN props \ {id} |-> props[k]]

\* lines 268-278: load the record from the store, check it, send the delete
DeleteCheck(p, id, userId, requester) ==
    LET property == findPropertyById(properties, id)
    IN IF property = Null
       THEN /\ pc' = [pc EXCEPT ![p] = "done"]
            /\ loc' = [loc EXCEPT ![p] =
                         [DeleteLoc(id, userId, requester, property) EXCEPT
                            !.result = [kind |-> "error", error |-> "not_found"]]]
       ELSE IF userId # NoUser /\ property.owner_id # userId
       THEN /\ pc' = [pc EXCEPT ![p] = "done"]
            /\ loc' = [loc EXCEPT ![p] =
                         [DeleteLoc(id, userId, requester, property) EXCEPT
                            !.result = [kind |-> "error", error |-> "unauthorized"]]]
       ELSE /\ pc' = [pc EXCEPT ![p] = "dl_delete"]
            /\ loc' = [loc EXCEPT ![p] = DeleteLoc(id, userId, requester, property)]

\* the delete is sent without looking the record up (not what the source
\* does)
DeleteCall_SkipLookup(p, id, userId) ==
    /\ pc[p] = "idle"
    /\ pc' = [pc EXCEPT ![p] = "dl_delete"]
    /\ loc' = [loc EXCEPT ![p] = DeleteLoc(id, userId, userId, Null)]
    /\ calls' = calls + 1
    /\ UNCHANGED <<storeVars, cacheVars, now, hist, users, provider>>

\* deleteProperty(id, userId) called with the requester's id
DeleteCall(p, id, userId) ==
    /\ pc[p] = "idle"
    /\ DeleteCheck(p, id, userId, userId)
    /\ calls' = calls + 1
    /\ UNCHANGED <<storeVars, cacheVars, now, hist, users, provider>>

\* requireOwnership("property"): whether the user owns the stored record
requireOwnership(props, id, user) ==
    id \in DOMAIN props /\ props[id].owner_id = user

\* part_001 line 72: the route's middleware lets the owner through
RouteDelete(p, id, user) ==
    /\ pc[p] = "idle"
    /\ IF requireOwnership(properties, id, user)
       THEN /\ pc' = [pc EXCEPT ![p] = "rt_delete"]
            /\ loc' = [loc EXCEPT ![p] = DeleteLoc(id, NoUser, user, Null)]
       ELSE /\ pc' = [pc EXCEPT ![p] = "done"]
            /\ loc' = [loc EXCEPT ![p] =
                         [DeleteLoc(id, NoUser, user, Null) EXCEPT
                            !.result = [kind |-> "error", error |-> "forbidden"]]]
    /\ calls' = calls + 1
    /\ UNCHANGED <<storeVars, cacheVars, now, hist, users, provider>>

\* part_001 line 74: the handler calls deleteProperty(req.params.id), without
\* a user id
RouteDeleteCall(p) ==
    /\ pc[p] = "rt_delete"
    /\ DeleteCheck(p, loc[p].id, NoUser, loc[p].requester)
    /\ UNCHANGED <<storeVars, cacheVars, now, calls, hist, users, provider>>

\* line 278: the store deletes the row
DeleteStore(p) ==
    /\ pc[p] = "dl_delete"
    /\ properties' = RemoveRow(properties, loc[p].id)
    /\ pc' = [pc EXCEPT ![p] = "dl_inval"]
    /\ UNCHANGED <<photos, nextId, cacheVars, now, loc, calls, hist, users, provider>>

\* the ownership entry is left in place (not what the source does)
DeleteReturn_NoOwnership(p) ==
    /\ pc[p] = "dl_inval"
    /\ cache' = CacheInvalidate(CacheInvalidate(cache, PropertyKey(loc[p].id)),
                                ListingNamespace)
    /\ loc' = [loc EXCEPT ![p].result = [kind |-> "data", data |-> Null]]
    /\ pc' = [pc EXCEPT ![p] = "done"]
    /\ UNCHANGED <<storeVars, ownerCache, now, calls, hist, users, provider>>

\* lines 280-284: the three invalidations, then null
DeleteReturn(p) ==
    /\ pc[p] = "dl_inval"
    /\ cache' = CacheInvalidate(CacheInvalidate(cache, PropertyKey(loc[p].id)),
                                ListingNamespace)
    /\ ownerCache' = invalidateOwnershipCache(ownerCache, loc[p].id)
    /\ loc' = [loc EXCEPT ![p].result = [kind |-> "data", data |-> Null]]
    /\ pc' = [pc EXCEPT ![p] = "done"]
    /\ UNCHANGED <<storeVars, now, calls, hist, users, provider>>

-----------------------------------------------------------------------------
(* recordPropertyView                                                      *)

ViewLoc(id, result) == [op |-> "view", id |-> id, result |-> result]

\* propertyRepository.incrementPropertyViews(id): the table with one more
\* view of the row
incrementPropertyViews(props, id) ==
    IF id \in DOMAIN props THEN [props EXCEPT ![id].views = @ + 1] ELSE props

\* lines 287-289: the store counts the view
RecordView(p, id) ==
    /\ pc[p] = "idle"
    /\ properties' = incrementPropertyViews(properties, id)
    /\ loc' = [loc EXCEPT ![p] = ViewLoc(id, [kind |-> "data", data |-> Null])]
    /\ pc' = [pc EXCEPT ![p] = "done"]
    /\ calls' = calls + 1
    /\ UNCHANGED <<photos, nextId, cacheVars, now, hist, users, provider>>

\* line 288: the increment is rejected; the await is in no try, so the
\* rejection is the call's
RecordViewFail(p, id) ==
    /\ pc[p] = "idle"
    /\ loc' = [loc EXCEPT ![p] = ViewLoc(id, [kind |-> "raised", error |-> "store"])]
    /\ pc' = [pc EXCEPT ![p] = "done"]
    /\ calls' = calls + 1
    /\ UNCHANGED <<storeVars, cacheVars, now, hist, users, provider>>

-----------------------------------------------------------------------------
(* The reconcile-photos handler                                            *)

ReconcileBatch == 200

RECURSIVE OrphanRows(_, _)
OrphanRows(rows, k) ==
    IF k > Len(rows) THEN <<>>
    ELSE IF rows[k].property_id = NullId
         THEN <<[id |-> k, url |-> rows[k].url]>> \o OrphanRows(rows, k + 1)
         ELSE OrphanRows(rows, k + 1)

Take(seq, n) == IF Len(seq) <= n THEN seq ELSE SubSeq(seq, 1, n)

ReconcileNext(l) == IF l.i < Len(l.orphanPhotos) THEN "rc_match" ELSE "done"

\* the locals of one pass; after, fetchFault and faults observe the pass:
\* whether an earlier pass had returned when this one fetched, whether the
\* fetch failed, and the rows whose lookup or update failed
ReconcileLoc(orphanPhotos, fetchFault, result) ==
    [op |-> "reconcile", orphanPhotos |-> orphanPhotos, i |-> 1,
     matched |-> NullId, reconciled |-> <<>>,
     after |-> \E q \in DOMAIN pc : pc[q] = "done" /\ loc[q].op = "reconcile",
     fetchFault |-> fetchFault, faults |-> {}, result |-> result]

\* lines 100-108: fetch up to 200 photo rows without a property reference
ReconcileFetch(p) ==
    /\ pc[p] = "idle"
    /\ LET orphanPhotos == Take(OrphanRows(photos, 1), ReconcileBatch)
       IN /\ loc' = [loc EXCEPT ![p] =
                       ReconcileLoc(orphanPhotos, FALSE,
                                    IF orphanPhotos = <<>>
                                    THEN [kind |-> "data", reconciled |-> <<>>]
                                    ELSE NoResult)]
          /\ pc' = [pc EXCEPT ![p] = IF orphanPhotos = <<>> THEN "done" ELSE "rc_match"]
    /\ calls' = calls + 1
    /\ UNCHANGED <<storeVars, cacheVars, now, hist, users, provider>>

\* lines 112-119: a property whose images contain the photo's URL, at most one
ReconcileMatch(p) ==
    /\ pc[p] = "rc_match"
    /\ LET l == loc[p]
           url == l.orphanPhotos[l.i].url
           matches == {id \in DOMAIN properties :
                          \E j \in 1..Len(properties[id].images) :
                              properties[id].images[j] = JStr(url)}
       IN IF matches = {}
          THEN /\ pc' = [pc EXCEPT ![p] = ReconcileNext(l)]
               /\ loc' = [loc EXCEPT ![p].i = @ + 1,
                                     ![p].result =
                                        IF ReconcileNext(l) = "done"
                                        THEN [kind |-> "data", reconciled |-> l.reconciled]
                                        ELSE @]
          ELSE \E m \in matches :
                 /\ pc' = [pc EXCEPT ![p] = "rc_update"]
                 /\ loc' = [loc EXCEPT ![p].matched = m]
    /\ UNCHANGED <<storeVars, cacheVars, now, calls, hist, users, provider>>

\* the pairing is recorded and the photo is left as it is (not what the
\* source does)
ReconcileUpdate_NoWrite(p) ==
    /\ pc[p] = "rc_update"
    /\ LET l == loc[p]
           photo == l.orphanPhotos[l.i]
           reconciled == Append(l.reconciled,
                                [photoId |-> photo.id, propertyId |-> l.matched])
       IN /\ pc' = [pc EXCEPT ![p] = ReconcileNext(l)]
          /\ loc' = [loc EXCEPT ![p] = [l EXCEPT
                                !.i = @ + 1,
                                !.reconciled = reconciled,
                                !.result =
                                   IF ReconcileNext(l) = "done"
                                   THEN [kind |-> "data", reconciled |-> reconciled]
                                   ELSE @]]
    /\ UNCHANGED <<storeVars, cacheVars, now, calls, hist, users, provider>>

\* the update also records the provenance in the photo (not what the source
\* does)
ReconcileUpdate_Retag(p) ==
    /\ pc[p] = "rc_update"
    /\ LET l == loc[p]
           photo == l.orphanPhotos[l.i]
           reconciled == Append(l.reconciled,
                                [photoId |-> photo.id, propertyId |-> l.matched])
       IN /\ photos' = [photos EXCEPT ![photo.id].property_id = l.matched,
                                      ![photo.id].source = "reconciliation"]
          /\ pc' = [pc EXCEPT ![p] = ReconcileNext(l)]
          /\ loc' = [loc EXCEPT ![p] = [l EXCEPT
                                !.i = @ + 1,
                                !.reconciled = reconciled,
                                !.result =
                                   IF ReconcileNext(l) = "done"
                                   THEN [kind |-> "data", reconciled |-> reconciled]
                                   ELSE @]]
    /\ UNCHANGED <<properties, nextId, cacheVars, now, calls, hist, users, provider>>

\* lines 120-121: set the photo's property reference, record the pairing
ReconcileUpdate(p) ==
    /\ pc[p] = "rc_update"
    /\ LET l == loc[p]
           photo == l.orphanPhotos[l.i]
           reconciled == Append(l.reconciled,
                                [photoId |-> photo.id, propertyId |-> l.matched])
       IN /\ photos' = [photos EXCEPT ![photo.id].property_id = l.matched]
          /\ pc' = [pc EXCEPT ![p] = ReconcileNext(l)]
          /\ loc' = [loc EXCEPT ![p].i = @ + 1,
                                ![p].reconciled = reconciled,
                                ![p].result =
                                   IF ReconcileNext(l) = "done"
                                   THEN [kind |-> "data", reconciled |-> reconciled]
                                   ELSE @]
    /\ UNCHANGED <<properties, nextId, cacheVars, now, calls, hist, users, provider>>

\* A request to the store can fail in two ways: the client raises, or the
\* promise resolves to {data: null, error}.

\* lines 102-110, 129-132: the fetch fails.  A raise reaches the outer catch;
\* an error value leaves orphanPhotos null, which the loop reads as empty
ReconcileFetchFail(p, raised) ==
    /\ pc[p] = "idle"
    /\ loc' = [loc EXCEPT ![p] =
                 ReconcileLoc(<<>>, TRUE,
                              IF raised THEN [kind |-> "error", error |-> "store"]
                              ELSE [kind |-> "data", reconciled |-> <<>>])]
    /\ pc' = [pc EXCEPT ![p] = "done"]
    /\ calls' = calls + 1
    /\ UNCHANGED <<storeVars, cacheVars, now, hist, users, provider>>

\* the locals after row l.i, with the list as it then is
ReconcileAdvance(l, reconciled, fault) ==
    [l EXCEPT !.i = @ + 1,
              !.reconciled = reconciled,
              !.faults = IF fault THEN @ \cup {l.i} ELSE @,
              !.result = IF ReconcileNext(l) = "done"
                         THEN [kind |-> "data", reconciled |-> reconciled]
                         ELSE @]

\* a raise in the loop aborts the pass (not what the source does)
ReconcileMatchFail_Abort(p, raised) ==
    /\ pc[p] = "rc_match"
    /\ IF raised
       THEN /\ pc' = [pc EXCEPT ![p] = "done"]
            /\ loc' = [loc EXCEPT ![p].faults = @ \cup {loc[p].i},
                                  ![p].result = [kind |-> "error", error |-> "store"]]
       ELSE /\ pc' = [pc EXCEPT ![p] = ReconcileNext(loc[p])]
            /\ loc' = [loc EXCEPT ![p] =
                         ReconcileAdvance(loc[p], loc[p].reconciled, TRUE)]
    /\ UNCHANGED <<storeVars, cacheVars, now, calls, hist, users, provider>>

\* lines 112-126: the lookup fails.  A raise is caught at line 123; an error
\* value leaves matched null; either way the loop goes to the next row
ReconcileMatchFail(p, raised) ==
    /\ pc[p] = "rc_match"
    /\ pc' = [pc EXCEPT ![p] = ReconcileNext(loc[p])]
    /\ loc' = [loc EXCEPT ![p] = ReconcileAdvance(loc[p], loc[p].reconciled, TRUE)]
    /\ UNCHANGED <<storeVars, cacheVars, now, calls, hist, users, provider>>

\* lines 120-126: the update fails and the photo stays as it is.  A raise is
\* caught before line 121; an error value is not looked at, and line 121
\* records the pairing
ReconcileUpdateFail(p, raised) ==
    /\ pc[p] = "rc_update"
    /\ LET l == loc[p]
           photo == l.orphanPhotos[l.i]
           reconciled == IF raised THEN l.reconciled
                         ELSE Append(l.reconciled,
                                     [photoId |-> photo.id, propertyId |-> l.matched])
       IN /\ pc' = [pc EXCEPT ![p] = ReconcileNext(l)]
          /\ loc' = [loc EXCEPT ![p] = ReconcileAdvance(l, reconciled, TRUE)]
    /\ UNCHANGED <<storeVars, cacheVars, now, calls, hist, users, provider>>

-----------------------------------------------------------------------------
(* handleUpdateUserRole (PATCH /api/admin/users/:id/role)                  *)

\* res.status(code).json(errorResponse(message))
ErrorResponse(status, message) ==
    [kind |-> "response", status |-> status, ok |-> FALSE,
     message |-> message, data |-> Null]

\* res.json(success(data, message)): the status stays 200
SuccessResponse(data, message) ==
    [kind |-> "response", status |-> 200, ok |-> TRUE,
     message |-> message, data |-> data]

\* !role
Falsy(x) ==
    \/ x = Undefined
    \/ x.t = "string" /\ x.v = ""
    \/ x.t = "number" /\ x.v = 0

\* Object.values(USER_ROLES).includes(role)
AllowedRole(x) == x.t = "string" /\ x.v \in USER_ROLES

\* reads and updates count the requests the store has executed for the call
RoleLoc(userId, role, result) ==
    [op |-> "role", userId |-> userId, role |-> role, existing |-> Null,
     reads |-> 0, updates |-> 0, result |-> result]

\* the allow-list is not consulted (not what the source does)
handleUpdateUserRole_AnyRole(p, userId, role) ==
    /\ pc[p] = "idle"
    /\ IF Falsy(role)
       THEN /\ pc' = [pc EXCEPT ![p] = "done"]
            /\ loc' = [loc EXCEPT ![p] =
                         RoleLoc(userId, role, ErrorResponse(400, "Role is required"))]
       ELSE /\ pc' = [pc EXCEPT ![p] = "ur_check"]
            /\ loc' = [loc EXCEPT ![p] = RoleLoc(userId, role, NoResult)]
    /\ calls' = calls + 1
    /\ UNCHANGED <<storeVars, cacheVars, now, hist, users, provider>>

\* lines 228-245: the role must be given and allowed; then the select is sent
handleUpdateUserRole(p, userId, role) ==
    /\ pc[p] = "idle"
    /\ IF Falsy(role)
       THEN /\ pc' = [pc EXCEPT ![p] = "done"]
            /\ loc' = [loc EXCEPT ![p] =
                         RoleLoc(userId, role, ErrorResponse(400, "Role is required"))]
       ELSE IF ~AllowedRole(role)
       THEN /\ pc' = [pc EXCEPT ![p] = "done"]
            /\ loc' = [loc EXCEPT ![p] =
                         RoleLoc(userId, role, ErrorResponse(400, "Invalid role"))]
       ELSE /\ pc' = [pc EXCEPT ![p] = "ur_check"]
            /\ loc' = [loc EXCEPT ![p] = RoleLoc(userId, role, NoResult)]
    /\ calls' = calls + 1
    /\ UNCHANGED <<storeVars, cacheVars, now, hist, users, provider>>

\* lines 241-249: the store answers the select; .single() without a row is
\* an error value
RoleCheck(p) ==
    /\ pc[p] = "ur_check"
    /\ LET l == loc[p]
           existing == IF l.userId \in DOMAIN users THEN users[l.userId] ELSE Null
       IN IF existing = Null
          THEN /\ pc' = [pc EXCEPT ![p] = "done"]
               /\ loc' = [loc EXCEPT ![p].reads = @ + 1,
                                     ![p].result = ErrorResponse(404, "User not found")]
          ELSE /\ pc' = [pc EXCEPT ![p] = "ur_update"]
               /\ loc' = [loc EXCEPT ![p].reads = @ + 1,
                                     ![p].existing = existing]
    /\ UNCHANGED <<storeVars, cacheVars, now, calls, hist, users, provider>>

\* lines 241-249, 261-263: the select fails; an error value is checkError
\* (404), a raise is caught (500)
RoleCheckFail(p, raised) ==
    /\ pc[p] = "ur_check"
    /\ pc' = [pc EXCEPT ![p] = "done"]
    /\ loc' = [loc EXCEPT ![p].result =
                 IF raised THEN ErrorResponse(500, "Failed to update user role")
                 ELSE ErrorResponse(404, "User not found")]
    /\ UNCHANGED <<storeVars, cacheVars, now, calls, hist, users, provider>>

\* lines 251-260: the store sets the role of the row and returns it;
\* .single() without a row is an error, which line 258 throws
RoleUpdate(p) ==
    /\ pc[p] = "ur_update"
    /\ LET l == loc[p]
       IN IF l.userId \in DOMAIN users
          THEN LET data == [users[l.userId] EXCEPT !.role = l.role.v]
               IN /\ users' = [users EXCEPT ![l.userId] = data]
                  /\ loc' = [loc EXCEPT
                               ![p].updates = @ + 1,
                               ![p].result =
                                  SuccessResponse(data, "User role updated successfully")]
          ELSE /\ users' = users
               /\ loc' = [loc EXCEPT ![p].result =
                            ErrorResponse(500, "Failed to update user role")]
    /\ pc' = [pc EXCEPT ![p] = "done"]
    /\ UNCHANGED <<storeVars, cacheVars, now, calls, hist, provider>>

\* lines 251-263: the update fails; both ways end in the catch
RoleUpdateFail(p, raised) ==
    /\ pc[p] = "ur_update"
    /\ pc' = [pc EXCEPT ![p] = "done"]
    /\ loc' = [loc EXCEPT ![p].result =
                 ErrorResponse(500, "Failed to update user role")]
    /\ UNCHANGED <<storeVars, cacheVars, now, calls, hist, users, provider>>

-----------------------------------------------------------------------------
(* AuthProvider: init and the onAuthStateChange handler                    *)

\* an absent or empty role
NoRole == ""

\* a || b of two roles
RoleOr(a, b) == IF a # NoRole THEN a ELSE b

\* lines 178-181
normalizeRole(role) ==
    IF role = "buyer" THEN "renter"
    ELSE RoleOr(role, "renter")

\* lines 183-185
needsRoleSelection(authUser) == authUser.role = NoRole

\* the user of a session: its id, the role of its user_metadata, whether
\* email_confirmed_at is set
AuthUser(id, role, confirmed) == [id |-> id, role |-> role, confirmed |-> confirmed]

\* lines 187-214: the user built from the row the select returned (data is
\* Null without a row or with an error value) and from the session's user
loadUserFromDB(data, authUser) ==
    LET role == normalizeRole(RoleOr(IF data = Null THEN NoRole ELSE data.role,
                                     authUser.role))
    IN [id |-> authUser.id,
        role |-> role,
        email_verified |-> authUser.confirmed,
        needs_role_selection |-> role = NoRole \/ needsRoleSelection(authUser)]

\* the row of the select of lines 188-192
UserData(id) == IF id \in DOMAIN users THEN users[id] ELSE Null

InitLoc(session) == [op |-> "init", session |-> session]

\* stale observes that a SIGNED_OUT event has been handled while the handler
\* awaits loadUserFromDB
EventLoc(event, session) ==
    [op |-> "event", event |-> event, session |-> session, stale |-> FALSE]

\* lines 233-236, 243-245: getSession answers; without a user in the session
\* init finishes at once
InitSession(p, session) ==
    /\ pc[p] = "in_session"
    /\ IF session # Null
       THEN /\ pc' = [pc EXCEPT ![p] = "in_load"]
            /\ UNCHANGED provider
       ELSE /\ pc' = [pc EXCEPT ![p] = "done"]
            /\ provider' = [provider EXCEPT !.authReady = TRUE,
                                            !.initializing = FALSE]
    /\ loc' = [loc EXCEPT ![p] = InitLoc(session)]
    /\ UNCHANGED <<storeVars, cacheVars, now, calls, hist, users>>

\* lines 238-245: the select of loadUserFromDB answers; the user is set and
\* init finishes
InitLoad(p) ==
    /\ pc[p] = "in_load"
    /\ LET authUser == loc[p].session
           builtUser == loadUserFromDB(UserData(authUser.id), authUser)
       IN provider' = [provider EXCEPT !.user = builtUser,
                                       !.emailVerified = builtUser.email_verified,
                                       !.authReady = TRUE,
                                       !.initializing = FALSE]
    /\ pc' = [pc EXCEPT ![p] = "done"]
    /\ UNCHANGED <<storeVars, cacheVars, now, loc, calls, hist, users>>

\* lines 252-266: an auth event arrives.  During initialization it is
\* dropped; SIGNED_OUT clears the user; an event with a session's user sends
\* the select of loadUserFromDB
AuthEvent(p, event, session) ==
    /\ pc[p] = "idle"
    /\ IF provider.initializing
       THEN /\ pc' = [pc EXCEPT ![p] = "done"]
            /\ loc' = [loc EXCEPT ![p] = EventLoc(event, session)]
            /\ UNCHANGED provider
       ELSE IF event = "SIGNED_OUT"
       THEN /\ pc' = [pc EXCEPT ![p] = "done"]
            /\ loc' = [q \in DOMAIN loc |->
                         IF q = p THEN EventLoc(event, session)
                         ELSE IF pc[q] = "ev_load" THEN [loc[q] EXCEPT !.stale = TRUE]
                         ELSE loc[q]]
            /\ provider' = [provider EXCEPT !.user = Null,
                                            !.emailVerified = FALSE,
                                            !.signedOut = TRUE]
       ELSE IF session # Null
       THEN /\ pc' = [pc EXCEPT ![p] = "ev_load"]
            /\ loc' = [loc EXCEPT ![p] = EventLoc(event, session)]
            /\ provider' = [provider EXCEPT !.signedOut = FALSE]
       ELSE /\ pc' = [pc EXCEPT ![p] = "done"]
            /\ loc' = [loc EXCEPT ![p] = EventLoc(event, session)]
            /\ UNCHANGED provider
    /\ calls' = calls + 1
    /\ UNCHANGED <<storeVars, cacheVars, now, hist, users>>

\* lines 262-264: the select of loadUserFromDB answers; the user is set
EventLoad(p) ==
    /\ pc[p] = "ev_load"
    /\ LET authUser == loc[p].session
           builtUser == loadUserFromDB(UserData(authUser.id), authUser)
       IN provider' = [provider EXCEPT !.user = builtUser,
                                       !.emailVerified = builtUser.email_verified]
    /\ pc' = [pc EXCEPT ![p] = "done"]
    /\ UNCHANGED <<storeVars, cacheVars, now, loc, calls, hist, users>>

-----------------------------------------------------------------------------
(* Concurrent calls                                                        *)

ConcProcs == {"a", "b"}

Requesters == {UserA, UserB, NoUser}

Patches ==
    { Patch(Absent, Undefined, "t1"),
      Patch(UserB, Undefined, Absent),
      Patch(Absent, JArr(<<JStr(U1)>>), Absent),
      Patch(Absent, JArr(<<JStr(UFtp)>>), Absent) }

OrphanUpload(url) == PhotoRow(url, UserA, NullId, "upload")

\* a property of UserA exists; a photo may have been uploaded before it
InitConc ==
    /\ properties = [k \in {Id1} |-> PropertyRow(Id1, UserA)]
    /\ photos \in {<<>>, <<OrphanUpload(U1)>>}
    /\ nextId = 2
    /\ cache = EmptyFn
    /\ ownerCache = {Id1}
    /\ now = 0
    /\ pc = [p \in ConcProcs |-> "idle"]
    /\ loc = [p \in ConcProcs |-> Idle]
    /\ calls = 0
    /\ hist = InitHist
    /\ users = InitialUsers
    /\ provider = InitialProvider

NextConc ==
    \/ \E p \in ConcProcs :
          \/ calls < MaxCalls /\ GetCall(p, Id1)
          \/ GetLoad(p)
          \/ GetReturn(p)
          \/ /\ calls < MaxCalls
             /\ \E updateData \in Patches, u \in Requesters :
                   UpdateCall(p, Id1, updateData, u)
          \/ UpdateWrite(p)
          \/ UpdateLookup(p)
          \/ UpdateRepoint(p)
          \/ UpdateInsert(p)
          \/ UpdateReturn(p)
          \/ calls < MaxCalls /\ ReconcileFetch(p)
          \/ ReconcileMatch(p)
          \/ ReconcileUpdate(p)
          \/ calls < MaxCalls /\ CreateCall(p, [images |-> JArr(<<JStr(U1)>>)], UserB)
          \/ ProcInsertProperty(p)
          \/ ProcInsertPhoto(p)
          \/ ProcReturn(p)
          \/ CreateReturn(p)
          \/ Finish(p)

SpecConc == InitConc /\ [][NextConc]_vars

\* readers and writers of one property
InitRace == InitConc /\ photos = <<>>

NextRace ==
    \E p \in ConcProcs :
        \/ calls < MaxRaceCalls /\ GetCall(p, Id1)
        \/ GetLoad(p)
        \/ GetReturn(p)
        \/ /\ calls < MaxRaceCalls
           /\ \E title \in {"t1", "t2"} :
                 UpdateCall(p, Id1, Patch(Absent, Undefined, title), UserA)
        \/ UpdateWrite(p)
        \/ UpdateReturn(p)
        \/ Finish(p)

SpecRace == InitRace /\ [][NextRace]_vars

\* deletes among readers and writers of one property
DeleteProcs == {"a", "b", "c"}

NoParams ==
    [propertyType |-> Undefined, city |-> Undefined, minPrice |-> Undefined,
     maxPrice |-> Undefined, status |-> Undefined, ownerId |-> Undefined,
     page |-> Undefined, limit |-> Undefined]

InitDelete ==
    /\ properties = [k \in {Id1} |-> PropertyRow(Id1, UserA)]
    /\ photos = <<>>
    /\ nextId = 2
    /\ cache = EmptyFn
    /\ ownerCache = {Id1}
    /\ now = 0
    /\ pc = [p \in DeleteProcs |-> "idle"]
    /\ loc = [p \in DeleteProcs |-> Idle]
    /\ calls = 0
    /\ hist = InitHist
    /\ users = InitialUsers
    /\ provider = InitialProvider

NextDelete ==
    \E p \in DeleteProcs :
        \/ calls < MaxDeleteCalls /\ \E u \in Users : RouteDelete(p, Id1, u)
        \/ RouteDeleteCall(p)
        \/ calls < MaxDeleteCalls /\ \E u \in Requesters : DeleteCall(p, Id1, u)
        \/ DeleteStore(p)
        \/ DeleteReturn(p)
        \/ /\ calls < MaxDeleteCalls
           /\ \E updateData \in {Patch(Absent, Undefined, "t1"),
                                  Patch(UserB, Undefined, Absent)} :
                 UpdateCall(p, Id1, updateData, UserA)
        \/ UpdateWrite(p)
        \/ UpdateWriteGone(p)
        \/ UpdateReturn(p)
        \/ calls < MaxDeleteCalls /\ GetCall(p, Id1)
        \/ GetLoad(p)
        \/ GetReturn(p)
        \/ calls < MaxDeleteCalls /\ ListCall(p, NoParams)
        \/ ListLoad(p)
        \/ ListReturn(p)
        \/ Finish(p)

SpecDelete == InitDelete /\ [][NextDelete]_vars

\* updates with images while requests of the photo association fail
AssocPatches ==
    { Patch(Absent, JArr(<<JStr(U1)>>), Absent),
      Patch(Absent, JArr(<<JStr(U1), JStr(U2)>>), Absent) }

NextAssoc ==
    \E p \in ConcProcs :
        \/ calls < MaxAssocCalls /\ GetCall(p, Id1)
        \/ GetLoad(p)
        \/ GetReturn(p)
        \/ /\ calls < MaxAssocCalls
           /\ \E updateData \in AssocPatches : UpdateCall(p, Id1, updateData, UserA)
        \/ UpdateWrite(p)
        \/ UpdateLookup(p)
        \/ \E raised \in BOOLEAN : UpdateLookupFail(p, raised)
        \/ UpdateRepoint(p)
        \/ \E raised \in BOOLEAN : UpdateRepointFail(p, raised)
        \/ UpdateInsert(p)
        \/ \E raised \in BOOLEAN : UpdateInsertFail(p, raised)
        \/ UpdateReturn(p)
        \/ Finish(p)

SpecAssoc == InitConc /\ [][NextAssoc]_vars

\* one caller, one call after the other
SeqProcs == {"s"}

InitSeq ==
    /\ properties = [k \in {Id1} |-> PropertyRow(Id1, UserA)]
    /\ photos = <<>>
    /\ nextId = 2
    /\ cache = EmptyFn
    /\ ownerCache = {Id1}
    /\ now = 0
    /\ pc = [p \in SeqProcs |-> "idle"]
    /\ loc = [p \in SeqProcs |-> Idle]
    /\ calls = 0
    /\ hist = InitHist
    /\ users = InitialUsers
    /\ provider = InitialProvider

NextSeq ==
    \E p \in SeqProcs :
        \/ calls < MaxSeqCalls /\ CreateCall(p, [images |-> JArr(<<JStr(U1)>>)], UserB)
        \/ ProcInsertProperty(p)
        \/ ProcInsertPhoto(p)
        \/ ProcReturn(p)
        \/ CreateReturn(p)
        \/ /\ calls < MaxSeqCalls
           /\ UpdateCall(p, Id1, Patch(Absent, Undefined, "t1"), UserA)
        \/ UpdateWrite(p)
        \/ UpdateReturn(p)
        \/ calls < MaxSeqCalls /\ DeleteCall(p, Id1, UserA)
        \/ DeleteStore(p)
        \/ DeleteReturn(p)
        \/ calls < MaxSeqCalls /\ RecordView(p, Id1)
        \/ calls < MaxSeqCalls /\ RecordViewFail(p, Id1)
        \/ calls < MaxSeqCalls /\ GetCall(p, Id1)
        \/ GetLoad(p)
        \/ GetReturn(p)
        \/ calls < MaxSeqCalls /\ ListCall(p, NoParams)
        \/ ListLoad(p)
        \/ ListReturn(p)
        \/ Finish(p)

SpecSeq == InitSeq /\ [][NextSeq]_vars

\* listings while properties are created
InitListing ==
    /\ properties = EmptyFn
    /\ photos = <<>>
    /\ nextId = 1
    /\ cache = EmptyFn
    /\ ownerCache = {}
    /\ now = 0
    /\ pc = [p \in ConcProcs |-> "idle"]
    /\ loc = [p \in ConcProcs |-> Idle]
    /\ calls = 0
    /\ hist = InitHist
    /\ users = InitialUsers
    /\ provider = InitialProvider

ListingParams ==
    {NoParams, [NoParams EXCEPT !.ownerId = JStr(UserText(UserB))]}

NextListing ==
    \E p \in ConcProcs :
        \/ calls < MaxListCalls /\ \E params \in ListingParams : ListCall(p, params)
        \/ ListLoad(p)
        \/ ListReturn(p)
        \/ calls < MaxListCalls /\ CreateCall(p, [images |-> JArr(<<JStr(U1)>>)], UserB)
        \/ ProcInsertProperty(p)
        \/ ProcInsertPhoto(p)
        \/ ProcReturn(p)
        \/ CreateReturn(p)
        \/ Finish(p)

SpecListing == InitListing /\ [][NextListing]_vars

\* getPropertyById for ids the store does not hold yet, beside createProperty
NextAbsent ==
    \E p \in ConcProcs :
        \/ calls < MaxAbsentCalls /\ \E id \in {Id1, NumToStr(2)} : GetCall(p, id)
        \/ GetLoad(p)
        \/ GetReturn(p)
        \/ calls < MaxAbsentCalls /\ CreateCall(p, [images |-> JArr(<<JStr(U1)>>)], UserB)
        \/ ProcInsertProperty(p)
        \/ ProcInsertPhoto(p)
        \/ ProcReturn(p)
        \/ CreateReturn(p)
        \/ Finish(p)

SpecAbsent == InitListing /\ [][NextAbsent]_vars

\* getProperties with every kind of page and limit text: absent, empty,
\* non-numeric, zero, negative, inside the range, at its end, above it
PagingTexts ==
    {Undefined, JStr(<<>>), JStr(<<"a">>), JStr(<<"0">>), JStr(<<"-", "1">>),
     JStr(<<"2">>), JStr(<<"1", "0", "0">>), JStr(<<"1", "0", "1">>)}

PagingParams ==
    {[NoParams EXCEPT !.page = pg, !.limit = lm] :
        pg \in PagingTexts, lm \in PagingTexts}

NextPaging ==
    \E p \in SeqProcs :
        \/ calls < MaxPageCalls /\ \E params \in PagingParams : ListCall(p, params)
        \/ ListLoad(p)
        \/ ListReturn(p)
        \/ Finish(p)

SpecPaging == InitSeq /\ [][NextPaging]_vars

\* one updateProperty call on a store that holds uploads without property and
\* photos of other properties
UpdatePhotos ==
    LET rows == {OrphanUpload(U1), OrphanUpload(U2),
                 PhotoRow(U1, UserB, NumToStr(2), "property_creation")}
    IN {<<>>} \cup {<<r>> : r \in rows} \cup {<<r, q>> : r \in rows, q \in rows}

UpdatePatches ==
    { Patch(Absent, Undefined, "t1"),
      Patch(Absent, JArr(<<>>), Absent),
      Patch(Absent, JArr(<<JStr(U1)>>), Absent),
      Patch(Absent, JArr(<<JStr(U1), JStr(U2)>>), Absent),
      Patch(Absent, JArr(<<JStr(U1), JStr(U1)>>), Absent) }

InitUpdate ==
    /\ properties = [k \in {Id1} |-> PropertyRow(Id1, UserA)]
    /\ photos \in UpdatePhotos
    /\ nextId = 3
    /\ cache = EmptyFn
    /\ ownerCache = {Id1}
    /\ now = 0
    /\ pc = [p \in SeqProcs |-> "idle"]
    /\ loc = [p \in SeqProcs |-> Idle]
    /\ calls = 0
    /\ hist = InitHist
    /\ users = InitialUsers
    /\ provider = InitialProvider

NextUpdate ==
    \E p \in SeqProcs :
        \/ /\ calls < MaxUpdateCalls
           /\ \E updateData \in UpdatePatches, u \in {UserA, NoUser} :
                 UpdateCall(p, Id1, updateData, u)
        \/ UpdateWrite(p)
        \/ UpdateLookup(p)
        \/ UpdateRepoint(p)
        \/ UpdateInsert(p)
        \/ UpdateReturn(p)
        \/ Finish(p)

SpecUpdate == InitUpdate /\ [][NextUpdate]_vars

\* owners and former owners update and delete while the record is read and
\* cached
NextAuth ==
    \E p \in ConcProcs :
        \/ calls < MaxAuthCalls /\ GetCall(p, Id1)
        \/ GetLoad(p)
        \/ GetReturn(p)
        \/ /\ calls < MaxAuthCalls
           /\ \E updateData \in {Patch(Absent, Undefined, "t1"),
                                  Patch(UserB, Undefined, Absent)}, u \in Users :
                 UpdateCall(p, Id1, updateData, u)
        \/ UpdateWrite(p)
        \/ UpdateWriteGone(p)
        \/ UpdateReturn(p)
        \/ calls < MaxAuthCalls /\ \E u \in Users : DeleteCall(p, Id1, u)
        \/ DeleteStore(p)
        \/ DeleteReturn(p)
        \/ Finish(p)

SpecAuth == InitRace /\ [][NextAuth]_vars

\* reconcile-photos alone: two properties with images, and photos uploaded
\* before them; UData is in no property's images
Id2 == NumToStr(2)

WithImages(row, urls) == [row EXCEPT !.images = [i \in 1..Len(urls) |-> JStr(urls[i])]]

ReconUrls == {U1, U2, UData}

ReconPhotos ==
    {<<OrphanUpload(u)>> : u \in ReconUrls}
        \cup {<<OrphanUpload(u), OrphanUpload(v)>> : u \in ReconUrls, v \in ReconUrls}

InitRecon ==
    /\ properties = [k \in {Id1, Id2} |->
                        IF k = Id1 THEN WithImages(PropertyRow(Id1, UserA), <<U1>>)
                        ELSE WithImages(PropertyRow(Id2, UserB), <<U1, U2>>)]
    /\ photos \in ReconPhotos
    /\ nextId = 3
    /\ cache = EmptyFn
    /\ ownerCache = {}
    /\ now = 0
    /\ pc = [p \in ConcProcs |-> "idle"]
    /\ loc = [p \in ConcProcs |-> Idle]
    /\ calls = 0
    /\ hist = InitHist
    /\ users = InitialUsers
    /\ provider = InitialProvider

NextRecon ==
    \E p \in ConcProcs :
        \/ calls < MaxReconCalls /\ ReconcileFetch(p)
        \/ calls < MaxReconCalls /\ \E raised \in BOOLEAN : ReconcileFetchFail(p, raised)
        \/ ReconcileMatch(p)
        \/ \E raised \in BOOLEAN : ReconcileMatchFail(p, raised)
        \/ ReconcileUpdate(p)
        \/ \E raised \in BOOLEAN : ReconcileUpdateFail(p, raised)
        \/ Finish(p)

SpecRecon == InitRecon /\ [][NextRecon]_vars

\* reconcile-photos while records are read and cached
NextSweep ==
    \E p \in ConcProcs :
        \/ calls < MaxSweepCalls /\ \E id \in {Id1, Id2} : GetCall(p, id)
        \/ GetLoad(p)
        \/ GetReturn(p)
        \/ calls < MaxSweepCalls /\ ReconcileFetch(p)
        \/ calls < MaxSweepCalls /\ \E raised \in BOOLEAN : ReconcileFetchFail(p, raised)
        \/ ReconcileMatch(p)
        \/ \E raised \in BOOLEAN : ReconcileMatchFail(p, raised)
        \/ ReconcileUpdate(p)
        \/ \E raised \in BOOLEAN : ReconcileUpdateFail(p, raised)
        \/ Finish(p)

SpecSweep == InitRecon /\ [][NextSweep]_vars

\* updateProperty calls of two properties that list the same URL, beside
\* reconcile-photos passes
NextClaim ==
    \E p \in ConcProcs :
        \/ /\ calls < MaxClaimCalls
           /\ \E id \in {Id1, Id2} :
                 UpdateCall(p, id, Patch(Absent, JArr(<<JStr(U1)>>), Absent),
                            properties[id].owner_id)
        \/ UpdateWrite(p)
        \/ UpdateLookup(p)
        \/ UpdateRepoint(p)
        \/ UpdateInsert(p)
        \/ UpdateReturn(p)
        \/ calls < MaxClaimCalls /\ ReconcileFetch(p)
        \/ ReconcileMatch(p)
        \/ ReconcileUpdate(p)
        \/ Finish(p)

SpecClaim == InitRecon /\ [][NextClaim]_vars

\* two properties, the identity of the first a prefix of the identity of
\* the second
Id10 == NumToStr(10)

InitPrefix ==
    /\ properties = [k \in {Id1, Id10} |-> PropertyRow(k, UserA)]
    /\ photos = <<>>
    /\ nextId = 11
    /\ cache = EmptyFn
    /\ ownerCache = {}
    /\ now = 0
    /\ pc = [p \in ConcProcs |-> "idle"]
    /\ loc = [p \in ConcProcs |-> Idle]
    /\ calls = 0
    /\ hist = InitHist
    /\ users = InitialUsers
    /\ provider = InitialProvider

NextPrefix ==
    \E p \in ConcProcs :
        \/ calls < MaxPrefixCalls /\ \E id \in {Id1, Id10} : GetCall(p, id)
        \/ GetLoad(p)
        \/ GetReturn(p)
        \/ /\ calls < MaxPrefixCalls
           /\ \E id \in {Id1, Id10} :
                 UpdateCall(p, id, Patch(Absent, Undefined, "t1"), UserA)
        \/ UpdateWrite(p)
        \/ UpdateReturn(p)
        \/ calls < MaxPrefixCalls /\ \E id \in {Id1, Id10} : DeleteCall(p, id, UserA)
        \/ DeleteStore(p)
        \/ DeleteReturn(p)
        \/ Finish(p)

SpecPrefix == InitPrefix /\ [][NextPrefix]_vars

\* updateProperty and deleteProperty for a stored and for a missing
\* identity, the cache holding the stored record
NextMissing ==
    \E p \in ConcProcs :
        \/ calls < MaxMissingCalls /\ GetCall(p, Id1)
        \/ GetLoad(p)
        \/ GetReturn(p)
        \/ /\ calls < MaxMissingCalls
           /\ \E id \in {Id1, Id2}, u \in {UserA, NoUser} :
                 UpdateCall(p, id, Patch(Absent, JArr(<<JStr(U1)>>), "t1"), u)
        \/ UpdateWrite(p)
        \/ UpdateWriteGone(p)
        \/ UpdateLookup(p)
        \/ UpdateRepoint(p)
        \/ UpdateInsert(p)
        \/ UpdateReturn(p)
        \/ /\ calls < MaxMissingCalls
           /\ \E id \in {Id1, Id2}, u \in {UserA, NoUser} : DeleteCall(p, id, u)
        \/ DeleteStore(p)
        \/ DeleteReturn(p)
        \/ Finish(p)

SpecMissing == InitConc /\ [][NextMissing]_vars

\* role changes: UserA has a row, UserB has none
RoleBodies ==
    {Undefined, JStr(""), JNum(0), JNum(7), JStr("agent"), JStr("admin"),
     JStr("not_a_role"), JStr("buyer")}

InitRole ==
    /\ properties = EmptyFn
    /\ photos = <<>>
    /\ nextId = 1
    /\ cache = EmptyFn
    /\ ownerCache = {}
    /\ now = 0
    /\ pc = [p \in ConcProcs |-> "idle"]
    /\ loc = [p \in ConcProcs |-> Idle]
    /\ calls = 0
    /\ hist = InitHist
    /\ users = [u \in {UserA} |-> UserRow(u, "renter")]
    /\ provider = InitialProvider

NextRole ==
    \E p \in ConcProcs :
        \/ /\ calls < MaxRoleCalls
           /\ \E userId \in Users, role \in RoleBodies :
                 handleUpdateUserRole(p, userId, role)
        \/ RoleCheck(p)
        \/ \E raised \in BOOLEAN : RoleCheckFail(p, raised)
        \/ RoleUpdate(p)
        \/ \E raised \in BOOLEAN : RoleUpdateFail(p, raised)
        \/ Finish(p)

SpecRole == InitRole /\ [][NextRole]_vars

\* AuthProvider with Supabase configured: init has called getSession, the
\* handler is subscribed; UserA has a row with a role, UserB has none
HandlerProcs == {"h1", "h2"}

Sessions ==
    {Null, AuthUser(UserA, NoRole, TRUE), AuthUser(UserB, "buyer", FALSE)}

AuthEvents ==
    {<<"SIGNED_OUT", Null>>, <<"INITIAL_SESSION", Null>>}
        \cup {<<e, session>> : e \in {"SIGNED_IN", "TOKEN_REFRESHED"},
                               session \in Sessions \ {Null}}

InitProvider ==
    /\ properties = EmptyFn
    /\ photos = <<>>
    /\ nextId = 1
    /\ cache = EmptyFn
    /\ ownerCache = {}
    /\ now = 0
    /\ pc = [p \in HandlerProcs \cup {"init"} |->
                IF p = "init" THEN "in_session" ELSE "idle"]
    /\ loc = [p \in HandlerProcs \cup {"init"} |-> Idle]
    /\ calls = 0
    /\ hist = InitHist
    /\ users = [u \in {UserA} |-> UserRow(u, "agent")]
    /\ provider = InitialProvider

NextProvider ==
    \/ \E session \in Sessions : InitSession("init", session)
    \/ InitLoad("init")
    \/ \E p \in HandlerProcs :
          \/ /\ calls < MaxEvents
             /\ \E ev \in AuthEvents : AuthEvent(p, ev[1], ev[2])
          \/ EventLoad(p)
          \/ Finish(p)

SpecProvider == InitProvider /\ [][NextProvider]_vars

-----------------------------------------------------------------------------
(* Claims about concurrent calls                                           *)

UpdateDone(p) == pc[p] = "done" /\ loc[p].op = "update"

Quiet == \A p \in DOMAIN pc : pc[p] \in {"idle", "done"}

\* C3: a getPropertyById call that starts after an updateProperty call has
\* returned returns a record at least as new as that update's write.
C3_ReadAfterUpdate ==
    \A p \in DOMAIN pc :
        (GetDone(p) /\ loc[p].result.kind = "data") =>
            loc[p].result.data.rev >= loc[p].needRev

\* C5: an updateProperty call whose requester differs from the owner the
\* store holds ends at once with the unauthorized fault, and the step leaves
\* the property rows, the photo rows, the cache and the ownership cache
\* unchanged.
C5_UnauthorizedNoMutation ==
    [][\A p \in DOMAIN pc :
          ( /\ pc[p] = "idle"
            /\ loc'[p].op = "update"
            /\ loc'[p].userId # NoUser
            /\ loc'[p].id \in DOMAIN properties
            /\ properties[loc'[p].id].owner_id # loc'[p].userId )
          => /\ pc'[p] = "done"
             /\ loc'[p].result = [kind |-> "error", error |-> "unauthorized"]
             /\ UNCHANGED <<properties, photos, cache, ownerCache>>]_vars

\* an unauthorized update has ended while the cache holds the property's
\* detail entry and the ownership cache holds its entry
C5_Witness ==
    \E p \in DOMAIN pc :
        /\ UpdateDone(p)
        /\ loc[p].result = [kind |-> "error", error |-> "unauthorized"]
        /\ PropertyKey(loc[p].id) \in DOMAIN cache
        /\ loc[p].id \in ownerCache
        /\ properties[loc[p].id].rev = 0

\* C6: whenever the store applies the patch of an updateProperty call made
\* with a requester, that requester is the owner the store holds at that
\* moment.
C6_NoEscalation ==
    [][\A p \in DOMAIN pc :
          ( /\ pc[p] = "up_write"
            /\ pc'[p] # "up_write"
            /\ loc[p].userId # NoUser )
          => properties[loc[p].id].owner_id = loc[p].userId]_vars

\* C8: every property row holds at most 25 images, each an http/https URL
\* string and none a data: URI.
C8_StoredImagesValid ==
    \A id \in DOMAIN properties :
        /\ Len(properties[id].images) <= 25
        /\ \A i \in 1..Len(properties[id].images) :
              IsHttpUrl(properties[id].images[i])

PhotoCount(id, url) ==
    Cardinality({k \in 1..Len(photos) :
                    photos[k].url = url /\ photos[k].property_id = id})

\* C10: once the calls have ended, no URL of a property's image list has
\* two or more photo rows that refer to the property.
C10_OnePhotoPerUrl ==
    Quiet =>
        \A id \in DOMAIN properties :
            \A i \in 1..Len(properties[id].images) :
                PhotoCount(id, properties[id].images[i].v) <= 1

-----------------------------------------------------------------------------
(* Claims about createProperty                                             *)

PhotosOf(id) ==
    LET Ref(r) == r.property_id = id
    IN SelectSeq(photos, Ref)

PhotoUrlsOf(id) == [i \in 1..Len(PhotosOf(id)) |-> PhotosOf(id)[i].url]

CreateDone(p) == pc[p] = "done" /\ loc[p].op = "create"

\* C1: createProperty is all-or-nothing.  A property identity the procedure
\* generated is in the store only once the procedure has committed, and then
\* with a photo row for every image; while the procedure runs, and after it
\* has failed at any point, the store holds neither the property row nor a
\* photo row referring to it.
C1_AllOrNothing ==
    /\ \A id \in DOMAIN properties : id \in DOMAIN hist.created
    /\ \A id \in DOMAIN hist.created :
          IF hist.created[id].state = "committed"
          THEN /\ id \in DOMAIN properties
               /\ PhotoUrlsOf(id) = hist.created[id].images
          ELSE /\ id \notin DOMAIN properties
               /\ PhotosOf(id) = <<>>

\* a call has returned an error after the procedure failed with one of its
\* two photo rows inserted
C1_Witness ==
    \E p \in DOMAIN pc, id \in DOMAIN hist.created :
        /\ CreateDone(p)
        /\ loc[p].result.kind = "error"
        /\ loc[p].image_urls = hist.created[id].images
        /\ Len(hist.created[id].images) = 2
        /\ hist.created[id].state = "failed"
        /\ hist.created[id].partial

-----------------------------------------------------------------------------
(* Claims about the reconcile-photos handler                               *)

ReconcileDone(p) == pc[p] = "done" /\ loc[p].op = "reconcile"

\* the properties whose images contain the URL
PropertiesContaining(url) ==
    {id \in DOMAIN properties :
        \E j \in 1..Len(properties[id].images) : properties[id].images[j] = JStr(url)}

\* the positions of the list that pair the photo
PairsOf(reconciled, photoId) ==
    {j \in 1..Len(reconciled) : reconciled[j].photoId = photoId}

\* C11: with no new orphan photo and no property change, a pass that starts
\* after another pass has returned reports an empty list, and no pairing
\* (photoId, propertyId) is reported by two different passes.
C11_Idempotent ==
    \A p \in DOMAIN pc, q \in DOMAIN pc :
        ReconcileDone(p) /\ ReconcileDone(q) =>
            /\ loc[p].after => loc[p].reconciled = <<>>
            /\ p # q =>
                 \A i \in 1..Len(loc[p].reconciled), j \in 1..Len(loc[q].reconciled) :
                     loc[p].reconciled[i] # loc[q].reconciled[j]

\* C12: after a pass without fault, every fetched orphan photo whose URL is
\* in some property's images refers to such a property and is paired with
\* such a property exactly once in the returned list; every other fetched
\* photo is still orphan and not in the list.
C12_MatchedAreLinked ==
    \A p \in DOMAIN pc :
        ReconcileDone(p) /\ ~loc[p].fetchFault /\ loc[p].faults = {} =>
            /\ loc[p].result = [kind |-> "data", reconciled |-> loc[p].reconciled]
            /\ \A k \in 1..Len(loc[p].orphanPhotos) :
                 LET photo == loc[p].orphanPhotos[k]
                     among == PropertiesContaining(photo.url)
                     pairs == PairsOf(loc[p].reconciled, photo.id)
                 IN IF among # {}
                    THEN /\ photos[photo.id].property_id \in among
                         /\ Cardinality(pairs) = 1
                         /\ \A j \in pairs : loc[p].reconciled[j].propertyId \in among
                    ELSE /\ photos[photo.id].property_id = NullId
                         /\ pairs = {}

\* a pass without fault has linked a photo and left another one orphan
C12_Witness ==
    \E p \in DOMAIN pc :
        /\ ReconcileDone(p) /\ ~loc[p].fetchFault /\ loc[p].faults = {}
        /\ Len(loc[p].orphanPhotos) = 2
        /\ Len(loc[p].reconciled) = 1
        /\ photos[loc[p].reconciled[1].photoId].property_id = loc[p].reconciled[1].propertyId

\* C13: a failed lookup or update of one row does not abort the pass: every
\* row of the batch is gone through, the pass returns its list, and the list
\* pairs every matching row that did not fail.
C13_RowFaultIsolated ==
    \A p \in DOMAIN pc :
        ReconcileDone(p) /\ ~loc[p].fetchFault =>
            /\ loc[p].i = Len(loc[p].orphanPhotos) + 1
            /\ loc[p].result = [kind |-> "data", reconciled |-> loc[p].reconciled]
            /\ \A k \in (1..Len(loc[p].orphanPhotos)) \ loc[p].faults :
                 LET photo == loc[p].orphanPhotos[k]
                 IN PropertiesContaining(photo.url) # {} =>
                        /\ PairsOf(loc[p].reconciled, photo.id) # {}
                        /\ photos[photo.id].property_id # NullId

\* the first row failed and the second one was linked and reported
C13_Witness ==
    \E p \in DOMAIN pc :
        /\ ReconcileDone(p)
        /\ loc[p].faults = {1}
        /\ Len(loc[p].orphanPhotos) = 2
        /\ PairsOf(loc[p].reconciled, loc[p].orphanPhotos[2].id) # {}
        /\ photos[loc[p].orphanPhotos[2].id].property_id # NullId

\* C14: a pass reports a fault exactly when its fetch of the orphan photos
\* failed.
C14_FetchFaultReported ==
    \A p \in DOMAIN pc :
        ReconcileDone(p) => (loc[p].result.kind = "error" <=> loc[p].fetchFault)

-----------------------------------------------------------------------------
(* Claims about deleteProperty and the invalidations                       *)

DeleteDone(p) == pc[p] = "done" /\ loc[p].op = "delete"

\* C15: when deleteProperty checks a delete, called with the requester's id
\* or through the DELETE route, and the requester is not the owner the store
\* holds, the call ends with the unauthorized fault and the row is not
\* deleted.
C15_DeleteOwnership ==
    [][\A p \in DOMAIN pc :
          ( /\ \/ pc[p] = "idle" /\ pc'[p] # "rt_delete"
               \/ pc[p] = "rt_delete" /\ pc'[p] # "rt_delete"
            /\ loc'[p].op = "delete"
            /\ loc'[p].result # [kind |-> "error", error |-> "forbidden"]
            /\ loc'[p].requester # NoUser
            /\ loc'[p].id \in DOMAIN properties
            /\ properties[loc'[p].id].owner_id # loc'[p].requester )
          => /\ pc'[p] = "done"
             /\ loc'[p].result = [kind |-> "error", error |-> "unauthorized"]]_vars

\* the keys of the cache that begin with the prefix
KeysWith(c, prefix) == {k \in DOMAIN c : StartsWith(k, prefix)}

\* C20: the step by which an updateProperty or deleteProperty call returns
\* its successful result comes after the store write and leaves the cache
\* without the entry property:<id>, without any entry of the properties:
\* namespace, and the ownership cache without the entry of the property.
C20_InvalidateOnWrite ==
    [][\A p \in DOMAIN pc :
          ( /\ pc[p] # "done"
            /\ pc'[p] = "done"
            /\ loc'[p].op \in {"update", "delete"}
            /\ loc'[p].result.kind = "data" )
          => /\ pc[p] \in {"up_inval", "dl_inval"}
             /\ KeysWith(cache', PropertyKey(loc'[p].id)) = {}
             /\ KeysWith(cache', ListingNamespace) = {}
             /\ loc'[p].id \notin ownerCache']_vars

\* a getPropertyById and a getProperties call have filled the cache, and an
\* update or delete that returned since has left none of the entries
C20_Witness ==
    \E p \in DOMAIN pc, q \in DOMAIN pc, r \in DOMAIN pc :
        /\ UpdateDone(p) \/ DeleteDone(p)
        /\ loc[p].result.kind = "data"
        /\ GetDone(q) /\ ~loc[q].fromCache /\ loc[q].result.kind = "data"
        /\ pc[r] = "done" /\ loc[r].op = "list" /\ ~loc[r].fromCache
        /\ cache = EmptyFn
        /\ loc[p].id \notin ownerCache

-----------------------------------------------------------------------------
(* Claims about faults of the store                                        *)

\* C17: when the procedure fails, by an error value or by a raise of the
\* client, createProperty returns a result that carries the fault message and
\* no data; nothing is raised to the caller.
C17_FaultAsValue ==
    \A p \in DOMAIN pc :
        (CreateDone(p) /\ (loc[p].resp.raised \/ loc[p].resp.error # NoError)) =>
            loc[p].result = [kind |-> "error", error |-> loc[p].resp.error]

\* one call has returned after a raise and another after an error value
C17_Witness ==
    \E p \in DOMAIN pc, q \in DOMAIN pc :
        /\ CreateDone(p) /\ loc[p].resp.raised /\ loc[p].result.kind = "error"
        /\ CreateDone(q) /\ ~loc[q].resp.raised /\ loc[q].resp.error # NoError
        /\ loc[q].result.kind = "error"

\* C19: once the store has applied the patch, no step of the photo
\* association, failed or not, ends the call or touches the property rows;
\* the call then returns the updated record, with the patch still in the
\* store and the three invalidations done.
C19_AssociationNotFatal ==
    [][\A p \in DOMAIN pc :
          /\ ( /\ pc[p] \in {"up_assoc", "up_repoint", "up_insert"}
               /\ pc'[p] # pc[p] \/ loc'[p] # loc[p] )
             => /\ pc'[p] \in {"up_assoc", "up_repoint", "up_insert", "up_inval"}
                /\ properties' = properties
          /\ ( pc[p] = "up_inval" /\ pc'[p] # "up_inval" )
             => /\ pc'[p] = "done"
                /\ loc'[p].result = [kind |-> "data", data |-> loc[p].updated]
                /\ properties'[loc[p].id].rev >= loc[p].updated.rev
                /\ KeysWith(cache', PropertyKey(loc[p].id)) = {}
                /\ KeysWith(cache', ListingNamespace) = {}
                /\ loc[p].id \notin ownerCache']_vars

\* an update whose photo association failed has returned the updated record;
\* its images are in the store, no photo row was added for them, and the
\* detail entry a getPropertyById call had cached is gone
C19_Witness ==
    \E p \in DOMAIN pc, q \in DOMAIN pc :
        /\ UpdateDone(p) /\ loc[p].faulted
        /\ loc[p].result = [kind |-> "data", data |-> loc[p].updated]
        /\ properties[loc[p].id].images = loc[p].updateData.images.v
        /\ PhotosOf(loc[p].id) = <<>>
        /\ GetDone(q) /\ ~loc[q].fromCache /\ loc[q].result.kind = "data"
        /\ cache = EmptyFn
        /\ loc[p].id \notin ownerCache

-----------------------------------------------------------------------------
(* Claims about recordPropertyView and the cache as an optimization        *)

\* No write of the service reads the cache, so a sequence of calls leaves the
\* same store with and without caching, and without caching every read
\* returns what the store holds when it is made.

\* C16: in a sequence of calls, getPropertyById returns the record the store
\* holds (null when it holds none) and getProperties returns the page and the
\* total the store holds, as they would with caching disabled.
C16_CacheTransparent ==
    \A p \in DOMAIN pc :
        /\ GetDone(p) =>
              loc[p].result =
                 IF loc[p].id \in DOMAIN properties
                 THEN [kind |-> "data", data |-> properties[loc[p].id]]
                 ELSE [kind |-> "absent"]
        /\ (pc[p] = "done" /\ loc[p].op = "list") =>
              LET found == findAllProperties(loc[p].params, loc[p].page, loc[p].limit)
              IN /\ loc[p].result.properties = found.data
                 /\ loc[p].result.pagination.total = found.count

\* C18: recordPropertyView completes normally whether or not the store
\* counted the view, and leaves the cache and the ownership cache as they
\* are.
C18_ViewFaultSwallowed ==
    [][\A p \in DOMAIN pc :
          (pc[p] = "idle" /\ loc'[p].op = "view") =>
              /\ loc'[p].result = [kind |-> "data", data |-> Null]
              /\ UNCHANGED <<cache, ownerCache>>]_vars

-----------------------------------------------------------------------------
(* Claims about listings, absent properties and the lifecycle              *)

ListDone(p) == pc[p] = "done" /\ loc[p].op = "list"

\* the elements of a sequence
Range(seq) == {seq[i] : i \in 1..Len(seq)}

\* C21: a getProperties call that begins after createProperty has returned a
\* property returns a page with that property, whenever the page the store
\* holds for its filter has it.
C21_ListSeesCreated ==
    \A p \in DOMAIN pc :
        ListDone(p) =>
            \A id \in loc[p].mustSee :
                id \in Range(findAllProperties(loc[p].params, loc[p].page,
                                               loc[p].limit).data)
                    => id \in Range(loc[p].result.properties)

\* the photo rows with the URL and the provenance that refer to pid
PhotoRowsWith(url, source, pid) ==
    {k \in 1..Len(photos) : /\ photos[k].url = url
                            /\ photos[k].source = source
                            /\ photos[k].property_id = pid}

\* C22: after the first updateProperty call on a store whose uploads are all
\* orphan, for each URL of patch.images: if an orphan upload with that URL
\* existed, exactly one such upload refers to id and no new row has that
\* URL; otherwise exactly one new row with that URL refers to id, tagged
\* property_update; every new row is one of these and every upload of
\* another URL is still orphan; without images, or with an empty list, there
\* is no new row and no upload refers to a property.
C22_UpdateAssociates ==
    \A p \in DOMAIN pc :
        (UpdateDone(p) /\ calls = 1 /\ loc[p].result.kind = "data") =>
            LET id == loc[p].id
                images == IF IsArray(loc[p].updateData.images)
                          THEN loc[p].updateData.images.v ELSE <<>>
                urls == {images[i].v : i \in 1..Len(images)}
                Repointed(u) == Cardinality(PhotoRowsWith(u, "upload", id))
                Orphan(u) == Cardinality(PhotoRowsWith(u, "upload", NullId))
                New(u) == Cardinality(PhotoRowsWith(u, "property_update", id))
            IN /\ \A u \in urls :
                    IF Repointed(u) + Orphan(u) > 0
                    THEN Repointed(u) = 1 /\ New(u) = 0
                    ELSE New(u) = 1
               /\ \A k \in 1..Len(photos) :
                    /\ photos[k].source = "property_update" =>
                          /\ photos[k].url \in urls
                          /\ photos[k].property_id = id
                          /\ photos[k].uploader_id = loc[p].userId
                    /\ (photos[k].source = "upload" /\ photos[k].url \notin urls) =>
                          photos[k].property_id = NullId

-----------------------------------------------------------------------------
(* Further claims about the reconcile-photos handler                       *)

\* C23: every pairing of the list a pass returns is of a row whose update
\* did not fail, and that photo refers to a property.
C23_OnlySuccessful ==
    \A p \in DOMAIN pc :
        ReconcileDone(p) =>
            \A j \in 1..Len(loc[p].reconciled) :
                LET photoId == loc[p].reconciled[j].photoId
                IN /\ \A k \in loc[p].faults : loc[p].orphanPhotos[k].id # photoId
                   /\ photos[photoId].property_id # NullId

\* C26: a step of a reconcile-photos pass leaves the cache, the ownership
\* cache and the property rows unchanged, adds and removes no photo row,
\* changes of a photo row nothing but its property reference, and changes
\* only rows of its fetched batch, which has at most 200 rows.
C26_ReconcileFrame ==
    [][\A p \in DOMAIN pc :
          ( /\ \/ pc[p] \in {"rc_match", "rc_update"}
               \/ pc[p] = "idle" /\ loc'[p].op = "reconcile"
            /\ pc'[p] # pc[p] \/ loc'[p] # loc[p] )
          => /\ UNCHANGED <<cache, ownerCache, properties, nextId>>
             /\ Len(photos') = Len(photos)
             /\ Len(loc'[p].orphanPhotos) <= ReconcileBatch
             /\ \A k \in 1..Len(photos) :
                  /\ photos'[k] = [photos[k] EXCEPT
                                      !.property_id = photos'[k].property_id]
                  /\ photos'[k] # photos[k] =>
                        \E j \in 1..Len(loc[p].orphanPhotos) :
                            loc[p].orphanPhotos[j].id = k]_vars

\* a pass has linked a photo while the cache holds a record; the photo is
\* otherwise as it was uploaded
C26_Witness ==
    \E p \in DOMAIN pc, q \in DOMAIN pc :
        /\ ReconcileDone(p) /\ Len(loc[p].reconciled) > 0
        /\ photos[loc[p].reconciled[1].photoId] =
              [OrphanUpload(photos[loc[p].reconciled[1].photoId].url) EXCEPT
                  !.property_id = loc[p].reconciled[1].propertyId]
        /\ GetDone(q) /\ PropertyKey(loc[q].id) \in DOMAIN cache

-----------------------------------------------------------------------------
(* Claims about the ownership decision and the detail entries              *)

\* C24: whatever the cache holds, an updateProperty or deleteProperty call
\* made for a user is rejected as unauthorized exactly when the record the
\* store holds at the load has another owner, ends with the not-found fault
\* exactly when the store holds no record, and goes on to the store write
\* otherwise.
C24_DecisionFromStore ==
    [][\A p \in DOMAIN pc :
          ( /\ pc[p] = "idle"
            /\ loc'[p].op \in {"update", "delete"}
            /\ pc'[p] # "rt_delete" )
          => LET stored == findPropertyById(properties, loc'[p].id)
                 userId == loc'[p].userId
             IN IF stored = Null
                THEN /\ pc'[p] = "done"
                     /\ loc'[p].result = [kind |-> "error", error |-> "not_found"]
                ELSE IF userId # NoUser /\ stored.owner_id # userId
                THEN /\ pc'[p] = "done"
                     /\ loc'[p].result = [kind |-> "error", error |-> "unauthorized"]
                ELSE pc'[p] \in {"up_write", "dl_delete"}]_vars

\* a call of the user the cached record names as owner has been rejected,
\* the store holding another owner
C24_Witness ==
    \E p \in DOMAIN pc :
        /\ pc[p] = "done" /\ loc[p].op \in {"update", "delete"}
        /\ loc[p].result = [kind |-> "error", error |-> "unauthorized"]
        /\ CacheLive(cache, PropertyKey(loc[p].id), now)
        /\ cache[PropertyKey(loc[p].id)].value.owner_id = loc[p].userId
        /\ loc[p].id \in DOMAIN properties
        /\ properties[loc[p].id].owner_id # loc[p].userId

\* a deleteProperty call has deleted the property and returned
DeletedAndReturned(id) ==
    \E q \in DOMAIN pc :
        DeleteDone(q) /\ loc[q].result.kind = "data" /\ loc[q].id = id

\* C25: once deleteProperty(id) has returned, an updateProperty or
\* deleteProperty call for id ends with the not-found fault and leaves the
\* store as it is, and a getPropertyById call for id is not served a cached
\* record.
C25_DeletedIsTerminal ==
    [][\A p \in DOMAIN pc :
          ( /\ pc[p] = "idle"
            /\ loc'[p].op \in {"get", "update", "delete"}
            /\ DeletedAndReturned(loc'[p].id) )
          => IF loc'[p].op = "get"
             THEN loc'[p].result.kind # "data"
             ELSE IF loc'[p].op = "delete" /\ loc'[p].requester # loc'[p].userId
             THEN UNCHANGED storeVars
             ELSE /\ pc'[p] = "done"
                  /\ loc'[p].result = [kind |-> "error", error |-> "not_found"]
                  /\ UNCHANGED storeVars]_vars

\* C27: getPropertyById for an id the store does not hold ends with the
\* absence value, not with a fault, and puts nothing into the cache; a cache
\* entry property:<id> always holds the record of a stored property with
\* that id, so a call made once the property exists is answered with the
\* record, read from the store unless a call that read it has cached it.
C27_AbsentNotCached ==
    [][\A p \in DOMAIN pc :
          /\ (pc[p] = "idle" /\ loc'[p].op = "get" /\ pc'[p] = "done") =>
                /\ loc'[p].result.kind = "data"
                /\ loc'[p].result.data.id = loc'[p].id
                /\ loc'[p].id \in DOMAIN properties
          /\ (pc[p] = "gp_find" /\ pc'[p] = "gp_resp") =>
                IF loc[p].id \in DOMAIN properties
                THEN loc'[p].property = properties[loc[p].id]
                ELSE loc'[p].property = Null
          /\ (pc[p] = "gp_resp" /\ pc'[p] = "done") =>
                IF loc[p].property = Null
                THEN /\ loc'[p].result = [kind |-> "absent"]
                     /\ cache' = cache
                ELSE /\ loc'[p].result.kind = "data"
                     /\ loc'[p].result.data.id = loc[p].id
          /\ \A id \in {Id1, Id2} :
                PropertyKey(id) \in DOMAIN cache' =>
                    /\ id \in DOMAIN properties'
                    /\ cache'[PropertyKey(id)].value.id = id]_vars

\* a call has ended with the absence value and a call made afterwards, the
\* property now being stored, has read the store and returned the record
C27_Witness ==
    \E p \in DOMAIN pc, q \in DOMAIN pc :
        /\ GetDone(p) /\ loc[p].result = [kind |-> "absent"]
        /\ GetDone(q) /\ loc[q].id = loc[p].id
        /\ loc[q].result.kind = "data" /\ loc[q].result.data.id = loc[q].id
        /\ ~loc[q].fromCache /\ loc[q].reads = 1

\* C29: whatever the interleaving of updateProperty calls and
\* reconcile-photos passes, a photo's property reference is written only
\* while it is null: a photo that refers to a property keeps referring to it.
C29_WrittenOnlyWhileNull ==
    [][\A k \in 1..Len(photos) :
          photos[k].property_id # NullId =>
              photos'[k].property_id = photos[k].property_id]_vars

\* C30: the invalidation at the end of updateProperty(id) and of
\* deleteProperty(id) leaves the detail entry property:<other> of every
\* other property as it is, also when other starts with id.
C30_OnlyThatEntry ==
    [][\A p \in DOMAIN pc :
          (pc[p] \in {"up_inval", "dl_inval"} /\ pc'[p] = "done") =>
              \A other \in {Id1, Id10} \ {loc[p].id} :
                  /\ PropertyKey(other) \in DOMAIN cache
                        <=> PropertyKey(other) \in DOMAIN cache'
                  /\ PropertyKey(other) \in DOMAIN cache =>
                        cache'[PropertyKey(other)] = cache[PropertyKey(other)]]_vars

-----------------------------------------------------------------------------
(* Claims about the page and the limit of getProperties                    *)

\* C28: whatever the page and limit texts of a getProperties call (absent,
\* non-numeric, zero, negative, above 100), the page of the query, of the
\* cache key and of the returned pagination is at least 1 and the limit is
\* within 1..100; a number below the range becomes the lower bound, 1, and a
\* limit above 100 becomes 100.  An empty text counts as an absent one.
C28_Clamped ==
    \A p \in DOMAIN pc :
        (ListDone(p) /\ ~loc[p].fromCache) =>
            LET l == loc[p]
                Given(x) == IF x # Undefined /\ Len(x.v) = 0 THEN Undefined ELSE x
                n == Number(Given(l.params.page))
                m == Number(Given(l.params.limit))
                page == l.result.pagination.page
                limit == l.result.pagination.limit
            IN /\ page >= 1
               /\ limit >= 1 /\ limit <= 100
               /\ (~n.nan /\ n.n < 1) => page = 1
               /\ (~m.nan /\ m.n < 1) => limit = 1
               /\ (~m.nan /\ m.n > 100) => limit = 100
               /\ l.page = page /\ l.limit = limit
               /\ Join(<<S_properties, <<>>, <<>>, <<>>, <<>>, S_active, <<>>,
                         NumToStr(page), NumToStr(limit)>>, S_colon)
                     \in DOMAIN cache

-----------------------------------------------------------------------------
(* Claims about a missing property                                         *)

\* C31: updateProperty and deleteProperty for an identity the store does not
\* hold end with the not-found fault at the lookup and change nothing: no
\* store update or delete, no photo row read or written, no entry of the
\* cache or of the ownership cache invalidated.
C31_MissingChangesNothing ==
    [][\A p \in DOMAIN pc :
          ( /\ pc[p] = "idle"
            /\ loc'[p].op \in {"update", "delete"}
            /\ loc'[p].id \notin DOMAIN properties )
          => /\ pc'[p] = "done"
             /\ loc'[p].result = [kind |-> "error", error |-> "not_found"]
             /\ loc'[p].op = "update" =>
                   /\ loc'[p].updated = Null
                   /\ loc'[p].i = 0
                   /\ loc'[p].toInsert = <<>>
             /\ UNCHANGED <<properties, photos, nextId, cache, ownerCache>>]_vars

\* an update and a delete of a missing identity have ended not-found while
\* the cache, the ownership cache and the photo table hold entries
C31_Witness ==
    \E p \in DOMAIN pc, q \in DOMAIN pc :
        /\ pc[p] = "done" /\ loc[p].op = "update"
        /\ pc[q] = "done" /\ loc[q].op = "delete"
        /\ loc[p].result = [kind |-> "error", error |-> "not_found"]
        /\ loc[q].result = [kind |-> "error", error |-> "not_found"]
        /\ PropertyKey(Id1) \in DOMAIN cache
        /\ Id1 \in ownerCache
        /\ Len(photos) > 0

-----------------------------------------------------------------------------
(* Claims about handleUpdateUserRole                                       *)

RoleDone(p) == pc[p] = "done" /\ loc[p].op = "role"

\* C33: a request without a role or with a role outside the allowed roles
\* is answered with status 400 without a store read or update; a request for
\* a user the store does not return is answered with status 404 without an
\* update; the users table changes only by an update that sets the role of an
\* existing user to the allowed role of a request that passed both checks,
\* and only such a request is answered with the success payload.
C33_RoleChangeGuarded ==
    [][/\ \A p \in DOMAIN pc :
            RoleDone(p) =>
               LET l == loc[p]
               IN /\ l.result.kind = "response"
                  /\ ~AllowedRole(l.role) =>
                        /\ l.result.status = 400
                        /\ l.reads = 0 /\ l.updates = 0
                  /\ (AllowedRole(l.role) /\ l.reads = 1 /\ l.existing = Null) =>
                        /\ l.result.status = 404
                        /\ l.updates = 0
                  /\ l.result.status = 404 => l.updates = 0
                  /\ l.result.ok <=> l.updates = 1
                  /\ l.result.ok =>
                        /\ l.result.status = 200
                        /\ AllowedRole(l.role)
                        /\ l.existing # Null
                        /\ l.result.data = UserRow(l.userId, l.role.v)
       /\ users' # users =>
            \E p \in DOMAIN pc :
                /\ pc[p] = "ur_update" /\ pc'[p] = "done"
                /\ AllowedRole(loc[p].role)
                /\ loc[p].existing # Null
                /\ loc[p].userId \in DOMAIN users
                /\ users' = [users EXCEPT ![loc[p].userId].role = loc[p].role.v]
                /\ loc'[p].result.ok]_vars

\* a request with a role outside the allowed roles and a request for a user
\* without a row have been refused, and a request has changed a role
C33_Witness ==
    \E p \in DOMAIN pc, q \in DOMAIN pc :
        /\ RoleDone(p) /\ loc[p].role = JStr("not_a_role")
        /\ loc[p].result.status = 400
        /\ RoleDone(q) /\ loc[q].userId = UserB /\ loc[q].result.status = 404
        /\ users[UserA].role = "agent"

-----------------------------------------------------------------------------
(* Claims about AuthProvider                                               *)

\* C32: once initialization has finished and a SIGNED_OUT event has been
\* handled, the user is null until a later event with a session arrives; a
\* handler that was awaiting loadUserFromDB when SIGNED_OUT was handled does
\* not set the user afterwards; an event that arrives during initialization
\* changes nothing.
C32_SignedOutStays ==
    [][/\ provider'.signedOut => provider'.user = Null
       /\ \A p \in DOMAIN pc :
             /\ (pc[p] = "ev_load" /\ loc[p].stale /\ pc'[p] = "done") =>
                   provider'.user = provider.user
             /\ (pc[p] = "idle" /\ loc'[p].op = "event" /\ provider.initializing) =>
                   /\ provider' = provider
                   /\ pc'[p] = "done"]_vars

====
